---- MODULE Spec2Model ----
(***************************************************************************)
(* Model of the tabular data engine of genius-board: the data cleaner      *)
(* (src/src/lib/data-cleaner.ts), the KPI calculator                       *)
(* (src/src/lib/kpi-calculator.ts) and the filter evaluators               *)
(* (src/src/context/FilterContext.tsx and the two dashboard pages).        *)
(*                                                                         *)
(* JavaScript values are records [t, s, n]: t is the typeof tag, s the     *)
(* characters of a string, n the value of a number.  Strings are sequences *)
(* of one-character strings so that trim, toLowerCase, includes, ... are   *)
(* computed and not assumed.                                               *)
(***************************************************************************)
EXTENDS Integers, Sequences, FiniteSets, TLC

(***************************************************************************)
(* Bounds of the model.                                                    *)
(***************************************************************************)
MaxRows == 2

(***************************************************************************)
(* JavaScript values.                                                      *)
(***************************************************************************)
Null == [t |-> "null", s |-> <<>>, n |-> 0]

Undefined == [t |-> "undefined", s |-> <<>>, n |-> 0]

NaN == [t |-> "nan", s |-> <<>>, n |-> 0]

Str(chars) == [t |-> "string", s |-> chars, n |-> 0]

Num(k) == [t |-> "number", s |-> <<>>, n |-> k]

\* typeof v === 'string'
IsString(v) == v.t = "string"

\* typeof v === 'number' (NaN is a number to typeof)
IsNumberType(v) == v.t \in {"number", "nan"}

(***************************************************************************)
(* String primitives.                                                      *)
(***************************************************************************)
UpperToLower ==
    ("A" :> "a") @@ ("B" :> "b") @@ ("E" :> "e") @@ ("N" :> "n") @@ ("T" :> "t")
    @@ ("C" :> "c") @@ ("R" :> "r") @@ ("S" :> "s") @@ ("U" :> "u")

LowerToUpper ==
    ("a" :> "A") @@ ("b" :> "B") @@ ("e" :> "E") @@ ("n" :> "N") @@ ("t" :> "T")
    @@ ("c" :> "C") @@ ("r" :> "R") @@ ("s" :> "S") @@ ("u" :> "U")

LowerChar(c) == IF c \in DOMAIN UpperToLower THEN UpperToLower[c] ELSE c

UpperChar(c) == IF c \in DOMAIN LowerToUpper THEN LowerToUpper[c] ELSE c

\* String.prototype.toLowerCase
ToLowerCase(str) == [i \in 1..Len(str) |-> LowerChar(str[i])]

\* String.prototype.toUpperCase
ToUpperCase(str) == [i \in 1..Len(str) |-> UpperChar(str[i])]

IsSpace(c) == c = " "

RECURSIVE TrimStart(_)
TrimStart(str) ==
    IF str = <<>> THEN <<>>
    ELSE IF IsSpace(Head(str)) THEN TrimStart(Tail(str))
    ELSE str

RECURSIVE TrimEnd(_)
TrimEnd(str) ==
    IF str = <<>> THEN <<>>
    ELSE IF IsSpace(str[Len(str)]) THEN TrimEnd(SubSeq(str, 1, Len(str) - 1))
    ELSE str

\* String.prototype.trim
Trim(str) == TrimEnd(TrimStart(str))

\* str.replace(/\s+/g, ' '): every run of whitespace becomes one space
RECURSIVE CollapseSpaces(_)
CollapseSpaces(str) ==
    IF Len(str) < 2 THEN str
    ELSE IF IsSpace(str[1]) /\ IsSpace(str[2]) THEN CollapseSpaces(Tail(str))
    ELSE <<Head(str)>> \o CollapseSpaces(Tail(str))

\* /\s{2,}/.test(str)
HasSpaceRun(str) == \E i \in 1..(Len(str) - 1) : IsSpace(str[i]) /\ IsSpace(str[i + 1])

\* String.prototype.includes
Includes(str, part) ==
    \E i \in 0..(Len(str) - Len(part)) : SubSeq(str, i + 1, i + Len(part)) = part

\* String.prototype.startsWith
StartsWith(str, part) ==
    Len(part) <= Len(str) /\ SubSeq(str, 1, Len(part)) = part

\* String.prototype.endsWith
EndsWith(str, part) ==
    Len(part) <= Len(str) /\ SubSeq(str, Len(str) - Len(part) + 1, Len(str)) = part

\* The indices of a set of naturals, ascending, as a sequence.
SortedSeq(S) ==
    [k \in 1..Cardinality(S) |-> CHOOSE i \in S : Cardinality({j \in S : j < i}) = k - 1]

\* Concatenation of a sequence of sequences (Array.prototype.flatMap, push(...xs)).
RECURSIVE Flatten(_)
Flatten(seqs) == IF seqs = <<>> THEN <<>> ELSE Head(seqs) \o Flatten(Tail(seqs))

RECURSIVE SumSeq(_)
SumSeq(nums) ==
    IF nums = <<>> THEN 0
    ELSE IF Len(nums) = 1 THEN nums[1]
    ELSE SumSeq(SubSeq(nums, 1, Len(nums) \div 2))
             + SumSeq(SubSeq(nums, Len(nums) \div 2 + 1, Len(nums)))

(***************************************************************************)
(* data-cleaner.ts                                                         *)
(***************************************************************************)
MISSING_VALUE_PLACEHOLDERS ==
    { <<"n","u","l","l">>, <<"n","/","a">>, <<"n","a">>, <<"n","a","n">>,
      <<"n","o","n","e">>, <<"-">>, <<".">>,
      <<"u","n","d","e","f","i","n","e","d">>, <<"m","i","s","s","i","n","g">>,
      <<"#","n","/","a">>, <<"#","n","a">>, <<"(","b","l","a","n","k",")">>,
      <<"b","l","a","n","k">>, <<"(","e","m","p","t","y",")">>,
      <<"e","m","p","t","y">> }

isMissingValue(value) ==
    \/ value.t \in {"null", "undefined"}
    \/ /\ IsString(value)
       /\ \/ value.s = <<>>
          \/ LET normalized == ToLowerCase(Trim(value.s))
             IN  normalized = <<>> \/ normalized \in MISSING_VALUE_PLACEHOLDERS

\* JSON.stringify of one cell: NaN is written as null; strings, numbers and
\* null keep their own spelling, so 12 and "12" differ.
JsonCell(value) == IF value.t = "nan" THEN Null ELSE value

\* JSON.stringify(row): the cells in key order.  All rows of one table have the
\* same keys in the same order, so the hash is the row with every cell spelled.
JsonStringify(row) == [c \in DOMAIN row |-> JsonCell(row[c])]

\* The column list of the cleaned table (ColumnInfo: name and type).
NameColumn == <<"n","a","m","e">>

AmountColumn == <<"a","m","o","u","n","t">>

CleanColumns ==
    << [name |-> NameColumn, type |-> "text"], [name |-> AmountColumn, type |-> "number"] >>

Range(f) == {f[i] : i \in DOMAIN f}

\* rowHashes of analyzeDataForCleaning: a Map from hash to the (0-based) indices
\* having it, in insertion order.  index is 1-based here.
RECURSIVE RowHashes(_, _, _)
RowHashes(rows, index, groups) ==
    IF index > Len(rows) THEN groups
    ELSE LET hash == JsonStringify(rows[index])
             at   == {g \in 1..Len(groups) : groups[g].hash = hash}
         IN  IF at = {}
             THEN RowHashes(rows, index + 1,
                            Append(groups, [hash |-> hash, indices |-> <<index - 1>>]))
             ELSE LET g == CHOOSE x \in at : TRUE
                  IN  RowHashes(rows, index + 1,
                                [groups EXCEPT ![g].indices = Append(@, index - 1)])

\* duplicateRows.push(...indices.slice(1)) for every group of more than one row
DuplicateRows(rows) ==
    LET groups == RowHashes(rows, 1, <<>>)
    IN  Flatten([g \in 1..Len(groups) |->
                    IF Len(groups[g].indices) > 1 THEN Tail(groups[g].indices) ELSE <<>>])

\* value !== value.trim() || /\s{2,}/.test(value), for string cells
HasWhitespaceIssue(value) ==
    IsString(value) /\ (value.s # Trim(value.s) \/ HasSpaceRun(value.s))

\* missingRows of one column: 0-based indices, ascending
MissingRows(rows, columnName) ==
    LET asc == SortedSeq({i \in 1..Len(rows) : isMissingValue(rows[i][columnName])})
    IN  [k \in 1..Len(asc) |-> asc[k] - 1]

\* whitespaceRows of one column: 0-based indices, ascending
WhitespaceRows(rows, columnName) ==
    LET asc == SortedSeq({i \in 1..Len(rows) : HasWhitespaceIssue(rows[i][columnName])})
    IN  [k \in 1..Len(asc) |-> asc[k] - 1]

ColumnNames(columns) == {columns[k].name : k \in 1..Len(columns)}

\* Record<string, number[]>: only the columns with at least one hit get a key
MissingValuesByColumn(rows, columns) ==
    [c \in {n \in ColumnNames(columns) : MissingRows(rows, n) # <<>>} |->
        MissingRows(rows, c)]

WhitespaceIssues(rows, columns) ==
    [c \in {n \in ColumnNames(columns) : WhitespaceRows(rows, n) # <<>>} |->
        WhitespaceRows(rows, c)]

analyzeDataForCleaning(rows, columns) ==
    [ totalRows |-> Len(rows),
      duplicateRows |-> DuplicateRows(rows),
      missingValuesByColumn |-> MissingValuesByColumn(rows, columns),
      whitespaceIssues |-> WhitespaceIssues(rows, columns) ]

\* The rows of generateCleaningPreview's removeEmptyRows loop (0-based): every
\* column of the row is missing
EmptyRowIndices(rows, columns) ==
    { i - 1 : i \in { j \in 1..Len(rows) :
                        \A k \in 1..Len(columns) : isMissingValue(rows[j][columns[k].name]) } }

\* generateCleaningPreview, the removal estimate.  affectedRows is the Set the
\* three parts add to; only the remove_row part asks affectedRows.has(i) before
\* it counts a row.
generateCleaningPreview(rows, columns, options) ==
    LET found == analyzeDataForCleaning(rows, columns)
        duplicates == IF options.removeDuplicates THEN Range(found.duplicateRows) ELSE {}
        empty == IF options.removeEmptyRows THEN EmptyRowIndices(rows, columns) ELSE {}
        affected == duplicates \cup empty
        missing ==
            IF options.handleMissingValues /\ options.missingValueStrategy = "remove_row"
            THEN UNION { Range(found.missingValuesByColumn[c]) :
                           c \in DOMAIN found.missingValuesByColumn } \ affected
            ELSE {}
    IN  [ summary |-> found,
          estimatedRemovals |->
              (IF options.removeDuplicates THEN Len(found.duplicateRows) ELSE 0)
                  + Cardinality(empty) + Cardinality(missing) ]

\* normalizeCase(value, strategy); titlecase lowercases, then upper-cases the
\* first character of every ' '-separated word.
normalizeCase(str, strategy) ==
    CASE strategy = "lowercase" -> ToLowerCase(str)
      [] strategy = "uppercase" -> ToUpperCase(str)
      [] strategy = "titlecase" ->
            LET low == ToLowerCase(str)
            IN  [i \in 1..Len(low) |->
                    IF i = 1 \/ low[i - 1] = " " THEN UpperChar(low[i]) ELSE low[i]]
      [] OTHER -> str

\* Array.prototype.sort((a, b) => a - b) by insertion
RECURSIVE InsertSorted(_, _)
InsertSorted(sorted, x) ==
    IF sorted = <<>> THEN <<x>>
    ELSE IF x < Head(sorted) THEN <<x>> \o sorted
    ELSE <<Head(sorted)>> \o InsertSorted(Tail(sorted), x)

RECURSIVE SortNumbers(_)
SortNumbers(nums) ==
    IF nums = <<>> THEN <<>> ELSE InsertSorted(SortNumbers(Tail(nums)), Head(nums))

\* a / b; the numeric cells of the model are multiples of 12 and at most four
\* of them are averaged, so the quotient is exact.
Divide(a, b) == a \div b

\* counts of fill_mode: a Map from value to count, in first-seen order
RECURSIVE ModeCounts(_, _)
ModeCounts(values, counts) ==
    IF values = <<>> THEN counts
    ELSE LET at == {k \in 1..Len(counts) : counts[k].value = Head(values)}
         IN  IF at = {}
             THEN ModeCounts(Tail(values),
                             Append(counts, [value |-> Head(values), count |-> 1]))
             ELSE LET k == CHOOSE x \in at : TRUE
                  IN  ModeCounts(Tail(values), [counts EXCEPT ![k].count = @ + 1])

\* counts.forEach: the first value whose count is strictly greater than all before
RECURSIVE PickMode(_, _, _)
PickMode(counts, maxCount, mode) ==
    IF counts = <<>> THEN mode
    ELSE IF Head(counts).count > maxCount
         THEN PickMode(Tail(counts), Head(counts).count, Head(counts).value)
         ELSE PickMode(Tail(counts), maxCount, mode)

calculateFillValue(rows, columnName, columnType, strategy, customValue) ==
    LET cells == [i \in 1..Len(rows) |-> rows[i][columnName]]
    IN  CASE strategy = "fill_empty" -> Str(<<>>)
          [] strategy = "fill_zero" -> Num(0)
          [] strategy = "fill_custom" -> Str(customValue)
          [] strategy \in {"fill_average", "fill_median"} ->
                IF columnType # "number" THEN Str(<<>>)
                ELSE LET kept    == SelectSeq(cells, LAMBDA v : v.t = "number")
                         numbers == [i \in 1..Len(kept) |-> kept[i].n]
                         sorted  == SortNumbers(numbers)
                         mid     == Len(sorted) \div 2
                     IN  IF numbers = <<>> THEN Num(0)
                         ELSE IF strategy = "fill_average"
                              THEN Num(Divide(SumSeq(numbers), Len(numbers)))
                         ELSE IF Len(sorted) % 2 = 1 THEN Num(sorted[mid + 1])
                         ELSE Num(Divide(sorted[mid] + sorted[mid + 1], 2))
          [] strategy = "fill_mode" ->
                LET values == SelectSeq(cells, LAMBDA v :
                                  v.t \notin {"null", "undefined"} /\ v # Str(<<>>))
                IN  IF values = <<>> THEN Str(<<>>)
                    ELSE PickMode(ModeCounts(values, <<>>), 0, Str(<<>>))
          [] OTHER -> Null

\* A CleaningChange of type 'removed_row'
RemovedRow(index, reason) ==
    [ type |-> "removed_row", rowIndex |-> index, column |-> <<>>,
      oldValue |-> Undefined, newValue |-> Undefined, reason |-> reason ]

\* A CleaningChange of type 'modified_cell'
ModifiedCell(index, columnName, oldValue, newValue, reason) ==
    [ type |-> "modified_cell", rowIndex |-> index, column |-> columnName,
      oldValue |-> oldValue, newValue |-> newValue, reason |-> reason ]

\* columnsToProcess of cleanData
ColumnsToProcess(columns, options) ==
    IF Len(options.columnsToClean) > 0
    THEN SelectSeq(columns, LAMBDA c : c.name \in Range(options.columnsToClean))
    ELSE columns

\* Step 1: cleanedRows.forEach with the Set seen; index is 1-based here and
\* every record carries the 0-based index of the row in the array walked.
RECURSIVE DedupLoop(_, _, _, _, _)
DedupLoop(rows, index, seen, uniqueRows, changes) ==
    IF index > Len(rows) THEN [rows |-> uniqueRows, changes |-> changes]
    ELSE LET hash == JsonStringify(rows[index])
         IN  IF hash \notin seen
             THEN DedupLoop(rows, index + 1, seen \cup {hash},
                            Append(uniqueRows, rows[index]), changes)
             ELSE DedupLoop(rows, index + 1, seen, uniqueRows,
                            Append(changes, RemovedRow(index - 1, "Duplicate row removed")))

\* Mutant of RemoveDuplicatesStep: seen.add(hash) forgotten, nothing is removed.
MutRemoveDuplicatesNeverSeen(st) == st

RemoveDuplicatesStep(st) ==
    LET done == DedupLoop(st.rows, 1, {}, <<>>, st.changes)
    IN  [st EXCEPT !.rows = done.rows, !.changes = done.changes]

\* cleanedRows.filter((row, index) => ...) that logs every row it drops: drop[i]
\* is the callback's verdict on row i, index the position in the array filtered.
FilterRowsStep(st, drop, reason) ==
    LET hit  == SortedSeq({i \in 1..Len(st.rows) : drop[i]})
        keep == SortedSeq({i \in 1..Len(st.rows) : ~drop[i]})
    IN  [st EXCEPT !.rows = [k \in 1..Len(keep) |-> st.rows[keep[k]]],
                   !.changes = @ \o [k \in 1..Len(hit) |-> RemovedRow(hit[k] - 1, reason)]]

\* Step 2: rows whose cell is missing in every column of the table
RemoveEmptyRowsStep(st, columns) ==
    FilterRowsStep(st,
        [i \in 1..Len(st.rows) |->
            \A k \in 1..Len(columns) : isMissingValue(st.rows[i][columns[k].name])],
        "Empty row removed")

\* Step 3, remove_row: rows with a missing cell in some column of the scope
RemoveMissingRowsStep(st, scope) ==
    FilterRowsStep(st,
        [i \in 1..Len(st.rows) |->
            \E k \in 1..Len(scope) : isMissingValue(st.rows[i][scope[k].name])],
        "Row with missing values removed")

FillReason(strategy) ==
    CASE strategy = "fill_empty" -> "Missing value filled with empty"
      [] strategy = "fill_zero" -> "Missing value filled with zero"
      [] strategy = "fill_custom" -> "Missing value filled with custom"
      [] strategy = "fill_average" -> "Missing value filled with average"
      [] strategy = "fill_median" -> "Missing value filled with median"
      [] strategy = "fill_mode" -> "Missing value filled with mode"
      [] OTHER -> "Missing value filled with"

\* Mutant of FillColumn: only null and empty cells are filled, not placeholders.
MutFillColumnSkipsPlaceholders(st, columnName, fillValue, reason) ==
    LET hit == SortedSeq({i \in 1..Len(st.rows) :
                   st.rows[i][columnName] \in {Null, Undefined, Str(<<>>)}})
    IN  [ rows |-> [i \in 1..Len(st.rows) |->
                      IF i \in Range(hit)
                      THEN [st.rows[i] EXCEPT ![columnName] = fillValue]
                      ELSE st.rows[i]],
          changes |-> st.changes \o
                      [k \in 1..Len(hit) |->
                          ModifiedCell(hit[k] - 1, columnName, st.rows[hit[k]][columnName],
                                       fillValue, reason)],
          modifiedCells |-> st.modifiedCells + Len(hit) ]

\* Mutant of FillColumn: modifiedCells counted once per column, not per cell.
MutFillColumnCountsColumns(st, columnName, fillValue, reason) ==
    LET hit == SortedSeq({i \in 1..Len(st.rows) : isMissingValue(st.rows[i][columnName])})
    IN  [ rows |-> [i \in 1..Len(st.rows) |->
                      IF isMissingValue(st.rows[i][columnName])
                      THEN [st.rows[i] EXCEPT ![columnName] = fillValue]
                      ELSE st.rows[i]],
          changes |-> st.changes \o
                      [k \in 1..Len(hit) |->
                          ModifiedCell(hit[k] - 1, columnName, st.rows[hit[k]][columnName],
                                       fillValue, reason)],
          modifiedCells |-> st.modifiedCells + (IF hit = <<>> THEN 0 ELSE 1) ]

\* Step 3, fill: cleanedRows.forEach for one column
FillColumn(st, columnName, fillValue, reason) ==
    LET hit == SortedSeq({i \in 1..Len(st.rows) : isMissingValue(st.rows[i][columnName])})
    IN  [ rows |-> [i \in 1..Len(st.rows) |->
                      IF isMissingValue(st.rows[i][columnName])
                      THEN [st.rows[i] EXCEPT ![columnName] = fillValue]
                      ELSE st.rows[i]],
          changes |-> st.changes \o
                      [k \in 1..Len(hit) |->
                          ModifiedCell(hit[k] - 1, columnName, st.rows[hit[k]][columnName],
                                       fillValue, reason)],
          modifiedCells |-> st.modifiedCells + Len(hit) ]

\* Mutant of FillMissingStep: the fill value comes from the rows the earlier
\* steps left.
RECURSIVE MutFillMissingFromCleaned(_, _, _, _)
MutFillMissingFromCleaned(st, scope, originalRows, options) ==
    IF scope = <<>> THEN st
    ELSE LET col == Head(scope)
             fillValue == calculateFillValue(st.rows, col.name, col.type,
                                             options.missingValueStrategy,
                                             options.customFillValue)
         IN  MutFillMissingFromCleaned(
                 FillColumn(st, col.name, fillValue, FillReason(options.missingValueStrategy)),
                 Tail(scope), originalRows, options)

\* Step 3, fill: columnsToProcess.forEach; the fill value comes from the rows
\* cleanData was called with.
RECURSIVE FillMissingStep(_, _, _, _)
FillMissingStep(st, scope, originalRows, options) ==
    IF scope = <<>> THEN st
    ELSE LET col == Head(scope)
             fillValue == calculateFillValue(originalRows, col.name, col.type,
                                             options.missingValueStrategy,
                                             options.customFillValue)
         IN  FillMissingStep(
                 FillColumn(st, col.name, fillValue, FillReason(options.missingValueStrategy)),
                 Tail(scope), originalRows, options)

\* Steps 4 and 5: cleanedRows.forEach(row => scope.forEach(col => ...)) writing
\* rewritten[i][k] into the cell of row i and column scope[k] when it differs
\* from the cell; one record per write, in row-major order.
RewriteCellsStep(st, scope, rewritten, reason) ==
    LET cells == Flatten([i \in 1..Len(st.rows) |->
                            [k \in 1..Len(scope) |-> [row |-> i, col |-> k]]])
        hits  == SelectSeq(cells, LAMBDA x :
                     rewritten[x.row][x.col] # st.rows[x.row][scope[x.col].name])
    IN  [ rows |-> [i \in 1..Len(st.rows) |->
                      [c \in DOMAIN st.rows[i] |->
                          IF \E k \in 1..Len(scope) : scope[k].name = c
                          THEN rewritten[i][CHOOSE k \in 1..Len(scope) : scope[k].name = c]
                          ELSE st.rows[i][c]]],
          changes |-> st.changes \o
                      [j \in 1..Len(hits) |->
                          ModifiedCell(hits[j].row - 1, scope[hits[j].col].name,
                                       st.rows[hits[j].row][scope[hits[j].col].name],
                                       rewritten[hits[j].row][hits[j].col], reason)],
          modifiedCells |-> st.modifiedCells + Len(hits) ]

\* Step 4: value.trim().replace(/\s+/g, ' ') on the string cells of the scope
TrimWhitespaceStep(st, scope) ==
    RewriteCellsStep(st, scope,
        [i \in 1..Len(st.rows) |-> [k \in 1..Len(scope) |->
            LET value == st.rows[i][scope[k].name]
            IN  IF IsString(value) THEN Str(CollapseSpaces(Trim(value.s))) ELSE value]],
        "Whitespace trimmed")

CaseReason(strategy) ==
    CASE strategy = "lowercase" -> "Case normalized to lowercase"
      [] strategy = "uppercase" -> "Case normalized to uppercase"
      [] strategy = "titlecase" -> "Case normalized to titlecase"
      [] OTHER -> "Case normalized to none"

\* The text and category columns of the scope
TextColumns(scope) == SelectSeq(scope, LAMBDA c : c.type \in {"text", "category"})

\* Step 5: non-empty string cells of the text and category columns of the scope
NormalizeCaseStep(st, scope, strategy) ==
    RewriteCellsStep(st, TextColumns(scope),
        [i \in 1..Len(st.rows) |-> [k \in 1..Len(TextColumns(scope)) |->
            LET value == st.rows[i][TextColumns(scope)[k].name]
            IN  IF IsString(value) /\ value.s # <<>>
                THEN Str(normalizeCase(value.s, strategy)) ELSE value]],
        CaseReason(strategy))

\* Mutant of cleanData: case is normalized before whitespace is trimmed.
MutCleanDataCaseBeforeTrim(rows, columns, options) ==
    LET scope == ColumnsToProcess(columns, options)
        st0 == [rows |-> rows, changes |-> <<>>, modifiedCells |-> 0]
        st1 == IF options.removeDuplicates THEN RemoveDuplicatesStep(st0) ELSE st0
        st2 == IF options.removeEmptyRows THEN RemoveEmptyRowsStep(st1, columns) ELSE st1
        st3 == IF ~options.handleMissingValues THEN st2
               ELSE IF options.missingValueStrategy = "remove_row"
                    THEN RemoveMissingRowsStep(st2, scope)
                    ELSE FillMissingStep(st2, scope, rows, options)
        st4 == IF options.normalizeCase
               THEN NormalizeCaseStep(st3, scope, options.caseStrategy) ELSE st3
        st5 == IF options.trimWhitespace THEN TrimWhitespaceStep(st4, scope) ELSE st4
    IN  [ cleanedRows |-> st5.rows,
          result |-> [ success |-> TRUE,
                       originalRowCount |-> Len(rows),
                       cleanedRowCount |-> Len(st5.rows),
                       removedRows |-> Len(rows) - Len(st5.rows),
                       modifiedCells |-> st5.modifiedCells,
                       changes |-> st5.changes ] ]

cleanData(rows, columns, options) ==
    LET scope == ColumnsToProcess(columns, options)
        st0 == [rows |-> rows, changes |-> <<>>, modifiedCells |-> 0]
        st1 == IF options.removeDuplicates THEN RemoveDuplicatesStep(st0) ELSE st0
        st2 == IF options.removeEmptyRows THEN RemoveEmptyRowsStep(st1, columns) ELSE st1
        st3 == IF ~options.handleMissingValues THEN st2
               ELSE IF options.missingValueStrategy = "remove_row"
                    THEN RemoveMissingRowsStep(st2, scope)
                    ELSE FillMissingStep(st2, scope, rows, options)
        st4 == IF options.trimWhitespace THEN TrimWhitespaceStep(st3, scope) ELSE st3
        st5 == IF options.normalizeCase
               THEN NormalizeCaseStep(st4, scope, options.caseStrategy) ELSE st4
    IN  [ cleanedRows |-> st5.rows,
          result |-> [ success |-> TRUE,
                       originalRowCount |-> Len(rows),
                       cleanedRowCount |-> Len(st5.rows),
                       removedRows |-> Len(rows) - Len(st5.rows),
                       modifiedCells |-> st5.modifiedCells,
                       changes |-> st5.changes ] ]

\* The 1-based positions a removal step dropped from its working array: the
\* records the step appended carry rowIndex, the index in that array
RemovedAt(before, after) ==
    { after.changes[i].rowIndex + 1 : i \in Len(before.changes) + 1..Len(after.changes) }

\* filter keeps the order: the positions in rows of the rows still in the
\* working array, given those positions before a step and the step's removals
KeepPositions(positions, before, after) ==
    IF Len(after.rows) = Len(before.rows) THEN positions
    ELSE SortedSeq({ positions[k] : k \in (1..Len(positions)) \ RemovedAt(before, after) })

\* For each row cleanData returns, the position in rows of the row it was made
\* from (steps 1 to 3 remove rows, steps 3 to 5 rewrite cells in place)
KeptPositions(rows, columns, options) ==
    LET scope == ColumnsToProcess(columns, options)
        st0 == [rows |-> rows, changes |-> <<>>, modifiedCells |-> 0]
        st1 == IF options.removeDuplicates THEN RemoveDuplicatesStep(st0) ELSE st0
        st2 == IF options.removeEmptyRows THEN RemoveEmptyRowsStep(st1, columns) ELSE st1
        st3 == IF options.handleMissingValues /\ options.missingValueStrategy = "remove_row"
               THEN RemoveMissingRowsStep(st2, scope) ELSE st2
        p0 == [k \in 1..Len(rows) |-> k]
        p1 == KeepPositions(p0, st0, st1)
        p2 == KeepPositions(p1, st1, st2)
    IN  KeepPositions(p2, st2, st3)

\* A variant of WorkingObjects for [...rows]: the working array holds the
\* caller's own row objects
MutWorkingObjectsShared(rows) == [k \in 1..Len(rows) |-> k]

\* let cleanedRows = [...rows.map(row => ({ ...row }))]: the objects of the
\* working array.  The caller's rows are the objects 1..n; the spread makes a
\* new object n + k for row k
WorkingObjects(rows) == [k \in 1..Len(rows) |-> Len(rows) + k]

\* The caller's rows array after cleanData returns.  The steps rebind the local
\* cleanedRows (filter, uniqueRows) and assign row[col.name] on elements of the
\* working array; such an assignment shows in the caller's row exactly when
\* the element is that same object
RowsAfterCleanData(rows, columns, options) ==
    LET objects == WorkingObjects(rows)
        kept == KeptPositions(rows, columns, options)
        final == cleanData(rows, columns, options).cleanedRows
    IN  [ i \in 1..Len(rows) |->
            IF \E k \in 1..Len(kept) : objects[kept[k]] = i
            THEN final[CHOOSE k \in 1..Len(kept) : objects[kept[k]] = i]
            ELSE rows[i] ]

getDefaultCleaningOptions ==
    [ removeDuplicates |-> TRUE, trimWhitespace |-> TRUE, normalizeCase |-> FALSE,
      caseStrategy |-> "lowercase", handleMissingValues |-> FALSE,
      missingValueStrategy |-> "fill_empty", customFillValue |-> <<>>,
      removeEmptyRows |-> TRUE, columnsToClean |-> <<>> ]

(***************************************************************************)
(* kpi-calculator.ts                                                       *)
(***************************************************************************)
DigitChars == <<"0", "1", "2", "3", "4", "5", "6", "7", "8", "9">>

\* The decimal spelling of a natural number
RECURSIVE NatToString(_)
NatToString(k) ==
    IF k < 10 THEN <<DigitChars[k + 1]>>
    ELSE NatToString(k \div 10) \o <<DigitChars[(k % 10) + 1]>>

\* String(value)
StringOf(value) ==
    CASE value.t = "string" -> value.s
      [] value.t = "number" ->
            IF value.n < 0 THEN <<"-">> \o NatToString(0 - value.n) ELSE NatToString(value.n)
      [] value.t = "nan" -> <<"N","a","N">>
      [] value.t = "null" -> <<"n","u","l","l">>
      [] OTHER -> <<"u","n","d","e","f","i","n","e","d">>

\* a + b on numbers
JsAdd(a, b) == IF a.t = "nan" \/ b.t = "nan" THEN NaN ELSE Num(a.n + b.n)

\* a / b on numbers, for b # 0
JsDivide(a, b) == IF a.t = "nan" \/ b.t = "nan" THEN NaN ELSE Num(Divide(a.n, b.n))

\* a > 0 on numbers (false for NaN)
JsPositive(a) == a.t = "number" /\ a.n > 0

\* A value that is false in a condition: null, undefined, '', 0, NaN
Falsy(value) ==
    \/ value.t \in {"null", "undefined", "nan"}
    \/ value = Str(<<>>)
    \/ value = Num(0)

KPI_COLUMN_HINTS ==
    [ sales |-> << <<"t","o","t","a","l">>, <<"a","m","o","u","n","t">>,
                   <<"r","e","v","e","n","u","e">>, <<"s","a","l","e","s">>,
                   <<"p","r","i","c","e">>, <<"v","a","l","u","e">>,
                   <<"i","n","c","o","m","e">> >>,
      quantity |-> << <<"q","u","a","n","t","i","t","y">>, <<"q","t","y">>,
                      <<"c","o","u","n","t">>, <<"u","n","i","t","s">>,
                      <<"i","t","e","m","s">> >>,
      customer |-> << <<"c","u","s","t","o","m","e","r">>, <<"c","l","i","e","n","t">>,
                      <<"b","u","y","e","r">>, <<"n","a","m","e">>,
                      <<"c","u","s","t","o","m","e","r","_","n","a","m","e">> >>,
      date |-> << <<"d","a","t","e">>, <<"t","i","m","e">>,
                  <<"t","i","m","e","s","t","a","m","p">>, <<"c","r","e","a","t","e","d">>,
                  <<"o","r","d","e","r","_","d","a","t","e">> >> ]

\* columns.find(pred)?.name: the name of the first column of the hit set, else undefined
FirstName(columns, hit) ==
    IF hit = {} THEN Undefined
    ELSE Str(columns[CHOOSE k \in hit : \A j \in hit : k <= j].name)

\* findColumn(hints, type) of detectKpiColumns; type "any" stands for no type.
RECURSIVE findColumn(_, _, _)
findColumn(columns, hints, type) ==
    IF hints = <<>> THEN Null
    ELSE LET hit == {k \in 1..Len(columns) :
                        /\ Includes(ToLowerCase(columns[k].name), Head(hints))
                        /\ (type = "any" \/ columns[k].type = type)}
         IN  IF hit # {} THEN FirstName(columns, hit)
             ELSE findColumn(columns, Tail(hints), type)

\* a || b || null
OrElse(a, b) == IF ~Falsy(a) THEN a ELSE IF ~Falsy(b) THEN b ELSE Null

ColumnsOfType(columns, types) == {k \in 1..Len(columns) : columns[k].type \in types}

detectKpiColumns(columns) ==
    LET sales == findColumn(columns, KPI_COLUMN_HINTS.sales, "number")
    IN  [ salesColumn |->
              IF Falsy(sales)
              THEN OrElse(FirstName(columns, ColumnsOfType(columns, {"number"})), Null)
              ELSE sales,
          quantityColumn |-> findColumn(columns, KPI_COLUMN_HINTS.quantity, "number"),
          customerColumn |->
              OrElse(findColumn(columns, KPI_COLUMN_HINTS.customer, "any"),
                     FirstName(columns, ColumnsOfType(columns, {"category", "text"}))),
          dateColumn |->
              OrElse(findColumn(columns, KPI_COLUMN_HINTS.date, "date"),
                     FirstName(columns, ColumnsOfType(columns, {"date"}))),
          costColumn |-> Undefined ]

\* row[column]: undefined when the row has no such key
Cell(row, columnName) == IF columnName \in DOMAIN row THEN row[columnName] ELSE Undefined

\* data.reduce((sum, row) => sum + (typeof value === 'number' ? value : 0), 0);
\* the sum does not depend on how the additions are grouped
RECURSIVE SumColumn(_, _)
SumColumn(data, columnName) ==
    IF data = <<>> THEN Num(0)
    ELSE IF Len(data) = 1
         THEN LET value == Cell(data[1], columnName)
              IN  JsAdd(Num(0), IF IsNumberType(value) THEN value ELSE Num(0))
    ELSE LET half == Len(data) \div 2
         IN  JsAdd(SumColumn(SubSeq(data, 1, half), columnName),
                   SumColumn(SubSeq(data, half + 1, Len(data)), columnName))

\* new Set(data.map(row => row[column]).filter(non-empty).map(String)).size
UniqueCustomers(data, columnName) ==
    Cardinality({ StringOf(Cell(data[i], columnName)) :
                    i \in {j \in 1..Len(data) :
                              LET v == Cell(data[j], columnName)
                              IN  v.t \notin {"null", "undefined"} /\ v # Str(<<>>)} })

\* Mutant of TotalOrders: one row too few (data.length - 1).
MutTotalOrdersOffByOne(data) == Num(IF Len(data) = 0 THEN 0 ELSE Len(data) - 1)

\* totalOrders: data.length
TotalOrders(data) == Num(Len(data))

calculateKpis(data, config) ==
    LET totalSales == IF Falsy(config.salesColumn) THEN Num(0)
                      ELSE SumColumn(data, config.salesColumn.s)
        totalQuantity == IF Falsy(config.quantityColumn) THEN Num(0)
                         ELSE SumColumn(data, config.quantityColumn.s)
    IN  IF Len(data) = 0
        THEN [ totalSales |-> Num(0), totalOrders |-> TotalOrders(data),
               totalQuantity |-> Num(0),
               averageOrderValue |-> Num(0), uniqueCustomers |-> Num(0),
               totalCost |-> Undefined, totalProfit |-> Undefined,
               profitMargin |-> Undefined ]
        ELSE [ totalSales |-> totalSales,
               totalOrders |-> TotalOrders(data),
               totalQuantity |-> totalQuantity,
               averageOrderValue |->
                   IF Len(data) > 0 /\ JsPositive(totalSales)
                   THEN JsDivide(totalSales, Num(Len(data))) ELSE Num(0),
               uniqueCustomers |->
                   IF Falsy(config.customerColumn) THEN Num(0)
                   ELSE Num(UniqueCustomers(data, config.customerColumn.s)),
               totalCost |-> Undefined, totalProfit |-> Undefined,
               profitMargin |-> Undefined ]

(***************************************************************************)
(* Filter evaluation: FilterContext.tsx and the two dashboard pages.       *)
(***************************************************************************)
DigitValue(c) == CHOOSE k \in 0..9 : DigitChars[k + 1] = c

IsDigits(str) == str # <<>> /\ \A i \in 1..Len(str) : str[i] \in Range(DigitChars)

RECURSIVE DigitsToNat(_)
DigitsToNat(str) ==
    IF str = <<>> THEN 0
    ELSE 10 * DigitsToNat(SubSeq(str, 1, Len(str) - 1)) + DigitValue(str[Len(str)])

\* A Date with the given time value.  The dates of the model are whole days,
\* so the time value is counted in days since 1970-01-01.
MsPerDay == 86400000

DateOf(time) == [t |-> "date", s |-> <<>>, n |-> time]

InvalidDate == [t |-> "invalid-date", s |-> <<>>, n |-> 0]

\* Number(value): null and blank strings are 0, undefined and text are NaN
ToNumber(value) ==
    CASE value.t = "number" -> value
      [] value.t = "null" -> Num(0)
      [] value.t = "date" -> Num(value.n * MsPerDay)
      [] value.t = "string" ->
            LET str == Trim(value.s)
            IN  IF str = <<>> THEN Num(0)
                ELSE IF IsDigits(str) THEN Num(DigitsToNat(str))
                ELSE IF Head(str) = "-" /\ IsDigits(Tail(str))
                     THEN Num(0 - DigitsToNat(Tail(str)))
                ELSE NaN
      [] OTHER -> NaN

\* Days from 1970-01-01 to the civil date y-m-d
DaysFromCivil(y, m, d) ==
    LET yy  == IF m <= 2 THEN y - 1 ELSE y
        era == yy \div 400
        yoe == yy - era * 400
        mp  == IF m > 2 THEN m - 3 ELSE m + 9
        doy == (153 * mp + 2) \div 5 + d - 1
        doe == yoe * 365 + yoe \div 4 - yoe \div 100 + doy
    IN  era * 146097 + doe - 719468

\* new Date(string) for the date-only ISO form YYYY-MM-DD; any other text of the
\* model is not a date.
ParseDate(str) ==
    IF /\ Len(str) = 10
       /\ str[5] = "-" /\ str[8] = "-"
       /\ IsDigits(SubSeq(str, 1, 4)) /\ IsDigits(SubSeq(str, 6, 7))
       /\ IsDigits(SubSeq(str, 9, 10))
       /\ DigitsToNat(SubSeq(str, 6, 7)) \in 1..12
       /\ DigitsToNat(SubSeq(str, 9, 10)) \in 1..31
    THEN DateOf(DaysFromCivil(DigitsToNat(SubSeq(str, 1, 4)),
                              DigitsToNat(SubSeq(str, 6, 7)),
                              DigitsToNat(SubSeq(str, 9, 10))))
    ELSE InvalidDate

\* new Date(value)
ToDate(value) ==
    CASE value.t = "date" -> value
      [] value.t = "number" -> DateOf(value.n \div MsPerDay)
      [] value.t = "null" -> DateOf(0)
      [] value.t = "string" -> ParseDate(value.s)
      [] OTHER -> InvalidDate

\* a >= b, a <= b, a > b, a < b on numbers and dates: false when either is NaN
Comparable(a, b) == a.t \in {"number", "date"} /\ b.t \in {"number", "date"}

JsGe(a, b) == Comparable(a, b) /\ a.n >= b.n

JsLe(a, b) == Comparable(a, b) /\ a.n <= b.n

JsGt(a, b) == Comparable(a, b) /\ a.n > b.n

JsLt(a, b) == Comparable(a, b) /\ a.n < b.n

\* a === b on numbers
JsSame(a, b) == a.t = "number" /\ b.t = "number" /\ a.n = b.n

\* a ?? b
Coalesce(a, b) == IF a.t \in {"null", "undefined"} THEN b ELSE a

\* The text operators, on the lower-cased cell text and filter text
TextMatch(operator, textValue, filterValue) ==
    CASE operator = "equals" -> textValue = filterValue
      [] operator = "contains" -> Includes(textValue, filterValue)
      [] operator = "startsWith" -> StartsWith(textValue, filterValue)
      [] operator = "endsWith" -> EndsWith(textValue, filterValue)
      [] OTHER -> TRUE

\* The number operators, on the coerced cell and the two filter bounds
NumberMatch(operator, numValue, low, high) ==
    CASE operator = "equals" -> JsSame(numValue, low)
      [] operator = "greaterThan" -> JsGt(numValue, low)
      [] operator = "lessThan" -> JsLt(numValue, low)
      [] operator = "between" -> JsGe(numValue, low) /\ JsLe(numValue, high)
      [] OTHER -> TRUE

\* The date range test of FilterContext and of the CSV dashboard page
DateRangeMatch(value, from, to) ==
    /\ ~Falsy(value)
    /\ ToDate(value).t = "date"
    /\ (Falsy(from) \/ JsGe(ToDate(value), from))
    /\ (Falsy(to) \/ JsLe(ToDate(value), to))

\* matchesFilter of FilterContext.tsx
matchesFilter(row, filter) ==
    LET value == Cell(row, filter.columnName)
    IN  IF ~filter.isActive THEN TRUE
        ELSE CASE filter.columnType = "text" ->
                    TextMatch(filter.operator,
                              ToLowerCase(StringOf(Coalesce(value, Str(<<>>)))),
                              ToLowerCase(filter.value.s))
               [] filter.columnType = "number" ->
                    /\ ToNumber(value).t # "nan"
                    /\ NumberMatch(filter.operator, ToNumber(value), filter.value,
                                   Coalesce(filter.valueTo, filter.value))
               [] filter.columnType = "category" ->
                    StringOf(value) \in Range(filter.values)
               [] filter.columnType = "date" ->
                    DateRangeMatch(value, filter.from, filter.to)
               [] OTHER -> TRUE

ActiveFilters(filters) == SelectSeq(filters, LAMBDA f : f.isActive)

\* Mutant of applyFilters: the filters whose isActive is false are applied too.
MutApplyFiltersAll(rows, filters) ==
    SelectSeq(rows, LAMBDA row :
        \A k \in 1..Len(filters) :
            matchesFilter(row, [filters[k] EXCEPT !.isActive = TRUE]))

\* Mutant of applyFilters: a row is kept when it matches some active filter.
MutApplyFiltersSome(rows, filters) ==
    IF ActiveFilters(filters) = <<>> THEN rows
    ELSE SelectSeq(rows, LAMBDA row :
             \E k \in 1..Len(filters) : filters[k].isActive /\ matchesFilter(row, filters[k]))

\* applyFilters of FilterContext.tsx, for a loaded table
applyFilters(rows, filters) ==
    IF ActiveFilters(filters) = <<>> THEN rows
    ELSE SelectSeq(rows, LAMBDA row :
             \A k \in 1..Len(ActiveFilters(filters)) :
                 matchesFilter(row, ActiveFilters(filters)[k]))

\* The per-filter test of filteredData in the CSV dashboard page
DashboardMatch(row, filter) ==
    LET value == Cell(row, filter.columnName)
    IN  CASE filter.columnType = "text" ->
                TextMatch(filter.operator,
                          ToLowerCase(StringOf(Coalesce(value, Str(<<>>)))),
                          ToLowerCase(filter.value.s))
          [] filter.columnType = "number" ->
                /\ ToNumber(value).t # "nan"
                /\ NumberMatch(filter.operator, ToNumber(value), filter.value,
                               Coalesce(filter.valueTo, filter.value))
          [] filter.columnType = "category" ->
                Len(filter.values) = 0 \/ StringOf(value) \in Range(filter.values)
          [] filter.columnType = "date" ->
                DateRangeMatch(value, filter.from, filter.to)
          [] OTHER -> TRUE

\* filteredData of the CSV dashboard page
DashboardFilteredData(rows, filters) ==
    IF ActiveFilters(filters) = <<>> THEN rows
    ELSE SelectSeq(rows, LAMBDA row :
             \A k \in 1..Len(ActiveFilters(filters)) :
                 DashboardMatch(row, ActiveFilters(filters)[k]))

\* The per-filter test of filteredRowsWithIds in the dataset dashboard page
DatasetMatch(row, filter) ==
    LET value == Cell(row, filter.columnName)
    IN  CASE filter.columnType = "text" ->
                TextMatch(filter.operator,
                          ToLowerCase(StringOf(Coalesce(value, Str(<<>>)))),
                          ToLowerCase(filter.value.s))
          [] filter.columnType = "number" ->
                NumberMatch(filter.operator, ToNumber(value), ToNumber(filter.value),
                            IF ~Falsy(filter.valueTo) THEN ToNumber(filter.valueTo)
                            ELSE ToNumber(filter.value))
          [] filter.columnType = "date" ->
                LET dateValue == IF value.t = "date" THEN value
                                 ELSE ParseDate(StringOf(value))
                IN  IF filter.operator # "dateRange" THEN TRUE
                    ELSE IF ~Falsy(filter.from) /\ ~Falsy(filter.to)
                         THEN JsGe(dateValue, ToDate(filter.from))
                              /\ JsLe(dateValue, ToDate(filter.to))
                    ELSE IF ~Falsy(filter.from) THEN JsGe(dateValue, ToDate(filter.from))
                    ELSE IF ~Falsy(filter.to) THEN JsLe(dateValue, ToDate(filter.to))
                    ELSE TRUE
          [] filter.columnType = "category" ->
                Len(filter.values) = 0 \/ StringOf(value) \in Range(filter.values)
          [] OTHER -> TRUE

\* filteredData of the dataset dashboard page (filteredRowsWithIds without the ids)
DatasetFilteredData(rows, filters) ==
    IF Len(rows) = 0 THEN <<>>
    ELSE IF ActiveFilters(filters) = <<>> THEN rows
    ELSE SelectSeq(rows, LAMBDA row :
             \A k \in 1..Len(ActiveFilters(filters)) :
                 DatasetMatch(row, ActiveFilters(filters)[k]))

(***************************************************************************)
(* Inputs of the cleaner: tables of at most MaxRows rows over CleanColumns *)
(* and the option records a user can build in the cleaner dialog.  A field *)
(* that the enabled steps do not read stays at its default.                *)
(***************************************************************************)
NameCells == { Str(<<"a">>), Str(<<" ","A">>), Str(<<" ","N","/","A"," ">>) }

AmountCells == { Null, Num(12) }

CleanRows ==
    { (NameColumn :> a) @@ (AmountColumn :> b) : a \in NameCells, b \in AmountCells }

SeqsUpTo(S, n) == UNION { [1..k -> S] : k \in 0..n }

CleanTables == SeqsUpTo(CleanRows, MaxRows)

MissingValueStrategies ==
    { "remove_row", "fill_empty", "fill_zero", "fill_average", "fill_median",
      "fill_mode", "fill_custom" }

CaseStrategies == { "lowercase", "uppercase", "titlecase" }

CleaningOptionSets ==
    { o \in [ removeDuplicates : BOOLEAN, trimWhitespace : BOOLEAN,
              normalizeCase : BOOLEAN, caseStrategy : CaseStrategies,
              handleMissingValues : BOOLEAN,
              missingValueStrategy : MissingValueStrategies,
              customFillValue : { <<>>, <<"b">> },
              removeEmptyRows : BOOLEAN,
              columnsToClean : { <<>>, <<NameColumn>> } ] :
        /\ o.normalizeCase \/ o.caseStrategy = "lowercase"
        /\ o.handleMissingValues \/ o.missingValueStrategy = "fill_empty"
        /\ o.customFillValue = <<>> <=>
             ~(o.handleMissingValues /\ o.missingValueStrategy = "fill_custom") }

(***************************************************************************)
(* State.                                                                  *)
(***************************************************************************)
VARIABLES
    inputRows,    \* the rows handed to the cleaner
    options,      \* the CleaningOptions of the run
    summary,      \* analyzeDataForCleaning(inputRows, columns)
    cleaned,      \* cleanData(inputRows, columns, options)
    recleaned,    \* a second run of cleanData: on cleaned.cleanedRows, or on the same data
    preview,      \* generateCleaningPreview(inputRows, columns, options)
    cleanerStep,  \* "loaded", "analyzed", "cleaned", "recleaned", "saved"
    kpiColumns,   \* the ColumnInfo list of the table the KPIs are computed for
    kpiRows,      \* the rows handed to calculateKpis
    kpiConfig,    \* the KpiConfig in use
    kpiData,      \* the KpiData last returned by calculateKpis
    kpiStep,      \* "columns", "detected", "configured", "calculated"
    evalRows,           \* the rows handed to the filter evaluators
    evalFilters,        \* filterState.filters of the FilterProvider
    activeFilterCount,  \* filterState.activeFilterCount
    priorityColumn,     \* filterState.priorityColumn
    contextFiltered,    \* applyFilters of the FilterProvider on them
    dashboardFiltered,  \* filteredData of the CSV dashboard page on them
    datasetFiltered,    \* filteredData of the dataset dashboard page on them
    dataset,               \* dataset of the dataset dashboard page
    filters,               \* filters of the dataset dashboard page
    filteredData,          \* its filteredData memo: the rows of the data table
    deferredFilteredData,  \* the rows of the charts and KPI cards in the commit on screen
    colName,        \* the header of the column handed to detectColumnType
    colValues,      \* its raw values
    colInfo,        \* the type and uniqueValues of the ColumnInfo built for it
    csvFile,        \* the File handed to parseCsv
    csvResult,      \* the outcome of parseCsv(csvFile)
    csvExport,      \* the text convertToCsv made of rows of csvResult
    csvReimport,    \* the outcome of parsing csvExport
    chartRows,      \* the rows handed to aggregateByColumn
    chartData,      \* the call of aggregateByColumn and the buckets it returned
    stored,       \* the database: the dataset row and its data rows
    saving,       \* a call of saveDataset: its rows, position and return value
    applying      \* a call of handleCleanComplete: its rows, position and outcome

cleanerVars == <<inputRows, options, summary, cleaned, recleaned, preview, cleanerStep>>

kpiVars == <<kpiColumns, kpiRows, kpiConfig, kpiData, kpiStep>>

filterVars ==
    <<evalRows, evalFilters, activeFilterCount, priorityColumn, contextFiltered,
      dashboardFiltered, datasetFiltered>>

pageVars == <<dataset, filters, filteredData, deferredFilteredData>>

columnVars == <<colName, colValues, colInfo>>

csvVars == <<csvFile, csvResult, csvExport, csvReimport>>

chartVars == <<chartRows, chartData>>

parserVars == <<columnVars, csvVars, chartVars>>

storeVars == <<stored, saving, applying>>

vars == <<cleanerVars, kpiVars, filterVars, pageVars, parserVars, storeVars>>

NoSummary == analyzeDataForCleaning(<<>>, CleanColumns)

NoRun == cleanData(<<>>, CleanColumns, getDefaultCleaningOptions)

NoPreview == generateCleaningPreview(<<>>, CleanColumns, getDefaultCleaningOptions)

\* The cleaner before any table is loaded
IdleCleaner ==
    /\ inputRows = <<>>
    /\ options = getDefaultCleaningOptions
    /\ summary = NoSummary
    /\ preview = NoPreview
    /\ cleaned = NoRun
    /\ recleaned = NoRun
    /\ cleanerStep = "loaded"

\* The KPI panel before any table is loaded
IdleKpi ==
    /\ kpiColumns = <<>>
    /\ kpiRows = <<>>
    /\ kpiConfig = detectKpiColumns(<<>>)
    /\ kpiData = calculateKpis(<<>>, detectKpiColumns(<<>>))
    /\ kpiStep = "columns"

\* The filter evaluators before any table is loaded
IdleFilter ==
    /\ evalRows = <<>>
    /\ evalFilters = <<>>
    /\ activeFilterCount = 0
    /\ priorityColumn = Null
    /\ contextFiltered = <<>>
    /\ dashboardFiltered = <<>>
    /\ datasetFiltered = <<>>

\* useState(null) for the dataset
NoDataset == [loaded |-> FALSE, rows |-> <<>>]

\* The dataset dashboard page before its dataset is fetched
IdlePage ==
    /\ dataset = NoDataset
    /\ filters = <<>>
    /\ filteredData = <<>>
    /\ deferredFilteredData = <<>>

\* No column has been typed yet
NoColumnInfo == [type |-> "none", uniqueValues |-> <<>>]

IdleColumn ==
    /\ colName = <<>>
    /\ colValues = <<>>
    /\ colInfo = NoColumnInfo

\* No file has been handed to the parser, nothing parsed
NoFile == [size |-> 0, name |-> <<>>, text |-> <<>>,
           workbook |-> [corrupt |-> TRUE, sheets |-> <<>>], readable |-> TRUE]

NoResult == [settled |-> FALSE, success |-> FALSE, errorCode |-> "", columns |-> <<>>,
             rows |-> <<>>, thrown |-> ""]

\* handleExport has not run
NoExport == [done |-> FALSE, rows |-> <<>>, text |-> <<>>, thrown |-> ""]

IdleCsv ==
    /\ csvFile = NoFile
    /\ csvResult = NoResult
    /\ csvExport = NoExport
    /\ csvReimport = NoResult

NoChart == [aggregation |-> "", groupByColumn |-> <<>>, valueColumn |-> <<>>,
            limit |-> 0, buckets |-> <<>>]

IdleChart ==
    /\ chartRows = <<>>
    /\ chartData = NoChart

IdleParser == IdleColumn /\ IdleCsv /\ IdleChart

\* No dataset row and no data rows
NoStoredDataset == [exists |-> FALSE, rowCount |-> 0, rows |-> <<>>]

\* saveDataset has not been called.  error is the kind of the error caught:
\* "error" for a success: false answer, "network" for a throwing fetch or json()
NotSaving == [phase |-> "idle", rows |-> <<>>, next |-> 0, result |-> "none", error |-> ""]

\* handleCleanComplete has not been called
NotApplying ==
    [phase |-> "idle", cleanedData |-> <<>>, next |-> 0, result |-> "none",
     before |-> <<>>, route |-> "none"]

\* The database and its clients before any request
IdleStore ==
    /\ stored = NoStoredDataset
    /\ saving = NotSaving
    /\ applying = NotApplying

InitCleaner ==
    /\ IdleStore
    /\ IdleParser
    /\ IdleKpi
    /\ IdleFilter
    /\ IdlePage
    /\ inputRows \in CleanTables
    /\ options = getDefaultCleaningOptions
    /\ summary = NoSummary
    /\ preview = NoPreview
    /\ cleaned = NoRun
    /\ recleaned = NoRun
    /\ cleanerStep = "loaded"

\* The dialog opens: the table is analyzed.
AnalyzeData ==
    /\ cleanerStep = "loaded"
    /\ summary' = analyzeDataForCleaning(inputRows, CleanColumns)
    /\ cleanerStep' = "analyzed"
    /\ UNCHANGED <<inputRows, options, cleaned, recleaned, preview, kpiVars, filterVars, pageVars,
                 parserVars, storeVars>>

\* The options are chosen, the preview is rendered for them, and cleanData is
\* run with them.
ApplyCleaning(chosen) ==
    /\ cleanerStep = "analyzed"
    /\ options' = chosen
    /\ preview' = generateCleaningPreview(inputRows, CleanColumns, chosen)
    /\ cleaned' = cleanData(inputRows, CleanColumns, chosen)
    /\ inputRows' = RowsAfterCleanData(inputRows, CleanColumns, chosen)
    /\ cleanerStep' = "cleaned"
    /\ UNCHANGED <<summary, recleaned, kpiVars, filterVars, pageVars, parserVars, storeVars>>

\* cleanData is run again, with the same options, on its own output.
CleanAgain ==
    /\ cleanerStep = "cleaned"
    /\ recleaned' = cleanData(cleaned.cleanedRows, CleanColumns, options)
    /\ cleanerStep' = "recleaned"
    /\ UNCHANGED <<inputRows, options, summary, cleaned, preview, kpiVars, filterVars, pageVars,
                 parserVars, storeVars>>

NextCleaner ==
    \/ AnalyzeData
    \/ \E chosen \in CleaningOptionSets : ApplyCleaning(chosen)
    \/ CleanAgain

SpecCleaner == InitCleaner /\ [][NextCleaner]_vars

(***************************************************************************)
(* DataCleanerModal.tsx: Apply runs cleanData and keeps the result, Save   *)
(* runs cleanData again on the same data, columns and options and hands    *)
(* the rows of the second run with the result of the first to the page.    *)
(***************************************************************************)

\* handleConfirmAndClose with a result: the second run of cleanData
ConfirmAndClose ==
    /\ cleanerStep = "cleaned"
    /\ recleaned' = cleanData(inputRows, CleanColumns, options)
    /\ inputRows' = RowsAfterCleanData(inputRows, CleanColumns, options)
    /\ cleanerStep' = "saved"
    /\ UNCHANGED <<options, summary, cleaned, preview, kpiVars, filterVars, pageVars,
                 parserVars, storeVars>>

NextDialog ==
    \/ AnalyzeData
    \/ \E chosen \in CleaningOptionSets : ApplyCleaning(chosen)
    \/ ConfirmAndClose

SpecDialog == InitCleaner /\ [][NextDialog]_vars

(***************************************************************************)
(* KPI panel: column lists for detectKpiColumns, and tables over the       *)
(* dashboard columns (name, amount) for calculateKpis.                     *)
(***************************************************************************)
KpiColumnPool ==
    { [name |-> <<>>, type |-> "number"],
      [name |-> <<"T","o","t","a","l">>, type |-> "number"],
      [name |-> <<"p","r","i","c","e">>, type |-> "number"],
      [name |-> <<"t","o","t","a","l","s">>, type |-> "text"],
      [name |-> <<"q","t","y">>, type |-> "number"],
      [name |-> <<"d","a","t","e">>, type |-> "date"],
      [name |-> <<"t","i","m","e">>, type |-> "category"],
      [name |-> NameColumn, type |-> "category"],
      [name |-> AmountColumn, type |-> "number"] }

MaxColumns == 2

\* Lists of columns with distinct names
KpiColumnLists ==
    { cols \in SeqsUpTo(KpiColumnPool, MaxColumns) :
        \A i, j \in 1..Len(cols) : i # j => cols[i].name # cols[j].name }

DashboardColumns ==
    << [name |-> NameColumn, type |-> "category"], [name |-> AmountColumn, type |-> "number"] >>

KpiRowPool ==
    { (NameColumn :> a) @@ (AmountColumn :> b) :
        a \in { Null, Str(<<>>), Str(<<"a">>), Str(<<"b">>) },
        b \in { Null, Num(0), Num(12) } }

KpiTables == SeqsUpTo(KpiRowPool, MaxRows)

\* A column name or null
ColumnChoice(names) == {Null} \cup {Str(n) : n \in names}

KpiConfigs ==
    [ salesColumn : ColumnChoice({AmountColumn}),
      quantityColumn : ColumnChoice({AmountColumn}),
      customerColumn : ColumnChoice({NameColumn, AmountColumn}),
      dateColumn : {Null},
      costColumn : ColumnChoice({AmountColumn}) ]

InitKpi ==
    /\ IdleStore
    /\ IdleParser
    /\ IdleCleaner
    /\ IdleFilter
    /\ IdlePage
    /\ kpiColumns \in KpiColumnLists
    /\ kpiRows \in (IF kpiColumns = DashboardColumns THEN KpiTables ELSE {<<>>})
    /\ kpiConfig = detectKpiColumns(<<>>)
    /\ kpiData = calculateKpis(<<>>, detectKpiColumns(<<>>))
    /\ kpiStep = "columns"

\* const kpiColumns = detectKpiColumns(csvData.columns)
DetectKpiColumns ==
    /\ kpiStep = "columns"
    /\ kpiConfig' = detectKpiColumns(kpiColumns)
    /\ kpiStep' = "detected"
    /\ UNCHANGED <<kpiColumns, kpiRows, kpiData, cleanerVars, filterVars, pageVars,
                 parserVars, storeVars>>

\* A KpiConfig given by the caller instead of the detected one
ConfigureKpi(config) ==
    /\ kpiStep = "columns"
    /\ kpiColumns = DashboardColumns
    /\ kpiConfig' = config
    /\ kpiStep' = "configured"
    /\ UNCHANGED <<kpiColumns, kpiRows, kpiData, cleanerVars, filterVars, pageVars,
                 parserVars, storeVars>>

\* calculateKpis(rows, config)
CalculateKpis ==
    /\ kpiStep \in {"detected", "configured"}
    /\ kpiData' = calculateKpis(kpiRows, kpiConfig)
    /\ kpiStep' = "calculated"
    /\ UNCHANGED <<kpiColumns, kpiRows, kpiConfig, cleanerVars, filterVars, pageVars,
                 parserVars, storeVars>>

NextKpi ==
    \/ DetectKpiColumns
    \/ \E config \in KpiConfigs : ConfigureKpi(config)
    \/ CalculateKpis

SpecKpi == InitKpi /\ [][NextKpi]_vars

(***************************************************************************)
(* The filter evaluators on one table and one filter list (SpecFilter).    *)
(***************************************************************************)
\* A Filter; the fields a filter type does not have are undefined / empty
Filter(columnName, columnType, operator, value, valueTo, values, isActive) ==
    [ id |-> 0, columnName |-> columnName, columnType |-> columnType,
      operator |-> operator, value |-> value, valueTo |-> valueTo,
      values |-> values, from |-> Null, to |-> Null, isActive |-> isActive ]

NumberFilter(operator, value, valueTo, isActive) ==
    Filter(AmountColumn, "number", operator, value, valueTo, <<>>, isActive)

TextFilter(operator, text) ==
    Filter(NameColumn, "text", operator, Str(text), Undefined, <<>>, TRUE)

CategoryFilter(values, isActive) ==
    Filter(NameColumn, "category", "in", Undefined, Undefined, values, isActive)

DateFilter(from, to) ==
    [Filter(NameColumn, "date", "dateRange", Undefined, Undefined, <<>>, TRUE)
        EXCEPT !.from = from, !.to = to]

\* The dates 2024-01-01 and 2024-01-02, as the Date objects of a date picker
Jan1 == ParseDate(<<"2","0","2","4","-","0","1","-","0","1">>)

Jan2 == ParseDate(<<"2","0","2","4","-","0","1","-","0","2">>)

FilterPool ==
    { NumberFilter("equals", Num(0), Undefined, TRUE),
      NumberFilter("greaterThan", Num(0), Undefined, TRUE),
      NumberFilter("lessThan", Num(12), Undefined, TRUE),
      NumberFilter("between", Num(0), Num(12), TRUE),
      NumberFilter("between", Num(12), Undefined, TRUE),
      NumberFilter("between", Num(12), Num(0), TRUE),
      NumberFilter("equals", Num(12), Undefined, FALSE),
      TextFilter("contains", <<"A">>),
      TextFilter("equals", <<"a","b">>),
      TextFilter("startsWith", <<"a">>),
      TextFilter("endsWith", <<"B">>),
      CategoryFilter(<<>>, TRUE),
      CategoryFilter(<< <<"a">> >>, TRUE),
      CategoryFilter(<<>>, FALSE),
      DateFilter(Null, Null),
      DateFilter(Jan2, Null),
      DateFilter(Null, Jan1),
      DateFilter(Jan1, Jan2) }

\* Rows with a name and an amount; the last one has a date for a name and no
\* amount property
FilterRowPool ==
    { (NameColumn :> Str(<<"a">>)) @@ (AmountColumn :> Num(12)),
      (NameColumn :> Null) @@ (AmountColumn :> Null),
      (NameColumn :> Str(<<"A","b">>)) @@ (AmountColumn :> Str(<<>>)),
      (NameColumn :> Str(<<"a">>)) @@ (AmountColumn :> Str(<<"x">>)),
      (NameColumn :> Str(<<"2","0","2","4","-","0","1","-","0","2">>)) }

FilterTables == SeqsUpTo(FilterRowPool, MaxRows)

MaxFilters == 2

\* const initialFilterState
initialFilterState == [filters |-> <<>>, activeFilterCount |-> 0, priorityColumn |-> Null]

\* { ...f, ...updates }: the properties of updates replace those of f
Spread(f, updates) ==
    [k \in DOMAIN f \cup DOMAIN updates |-> IF k \in DOMAIN updates THEN updates[k] ELSE f[k]]

\* state.filters.filter(f => f.isActive).length
ActiveCount(list) == Len(SelectSeq(list, LAMBDA f : f.isActive = TRUE))

\* removedFilter?.isActive ? 1 : 0, with removedFilter =
\* state.filters.find(f => f.id === action.id), the first filter with the id
removedFilterActive(state, id) ==
    LET at == { k \in 1..Len(state.filters) : state.filters[k].id = id }
    IN  IF at = {} THEN 0
        ELSE IF state.filters[CHOOSE k \in at : \A j \in at : k <= j].isActive = TRUE
             THEN 1 ELSE 0

\* filterReducer(state, action)
filterReducer(state, action) ==
    CASE action.type = "ADD_FILTER" ->
            [state EXCEPT
                !.filters = Append(state.filters, action.filter),
                !.activeFilterCount =
                    ActiveCount(state.filters) + (IF action.filter.isActive = TRUE THEN 1 ELSE 0)]
      [] action.type = "UPDATE_FILTER" ->
            LET updated == [k \in 1..Len(state.filters) |->
                               IF state.filters[k].id = action.id
                               THEN Spread(state.filters[k], action.updates)
                               ELSE state.filters[k]]
            IN  [state EXCEPT !.filters = updated, !.activeFilterCount = ActiveCount(updated)]
      [] action.type = "REMOVE_FILTER" ->
            [state EXCEPT
                !.filters = SelectSeq(state.filters, LAMBDA f : f.id # action.id),
                !.activeFilterCount =
                    state.activeFilterCount - removedFilterActive(state, action.id)]
      [] action.type = "CLEAR_ALL_FILTERS" -> initialFilterState
      [] action.type = "SET_PRIORITY_COLUMN" ->
            [state EXCEPT !.priorityColumn = action.columnName]
      [] action.type = "TOGGLE_FILTER" ->
            LET toggled == [k \in 1..Len(state.filters) |->
                               IF state.filters[k].id = action.id
                               THEN [state.filters[k] EXCEPT !.isActive = ~@]
                               ELSE state.filters[k]]
            IN  [state EXCEPT !.filters = toggled, !.activeFilterCount = ActiveCount(toggled)]
      [] OTHER -> state

\* useReducer(filterReducer, initialFilterState): the state of the provider
filterState ==
    [filters |-> evalFilters, activeFilterCount |-> activeFilterCount,
     priorityColumn |-> priorityColumn]

\* dispatch(action), followed by the evaluation of the new list (the callers
\* say what a dispatch leaves alone)
Dispatch(action) ==
    LET next == filterReducer(filterState, action)
    IN  /\ evalFilters' = next.filters
        /\ activeFilterCount' = next.activeFilterCount
        /\ priorityColumn' = next.priorityColumn
        /\ contextFiltered' = applyFilters(evalRows, next.filters)
        /\ dashboardFiltered' = DashboardFilteredData(evalRows, next.filters)
        /\ datasetFiltered' = DatasetFilteredData(evalRows, next.filters)

InitFilter ==
    /\ IdleStore
    /\ IdleParser
    /\ IdleCleaner
    /\ IdleKpi
    /\ IdlePage
    /\ evalRows \in FilterTables
    /\ evalFilters = initialFilterState.filters
    /\ activeFilterCount = initialFilterState.activeFilterCount
    /\ priorityColumn = initialFilterState.priorityColumn
    /\ contextFiltered = applyFilters(evalRows, evalFilters)
    /\ dashboardFiltered = DashboardFilteredData(evalRows, evalFilters)
    /\ datasetFiltered = DatasetFilteredData(evalRows, evalFilters)

\* ADD_FILTER, followed by the evaluation of the new list
AddContextFilter(filter) ==
    /\ Len(evalFilters) < MaxFilters
    /\ Dispatch([type |-> "ADD_FILTER",
                 filter |-> [filter EXCEPT !.id = Len(evalFilters) + 1]])
    /\ UNCHANGED <<evalRows, cleanerVars, kpiVars, pageVars, parserVars, storeVars>>

\* CLEAR_ALL_FILTERS, followed by the evaluation of the empty list
ClearContextFilters ==
    /\ evalFilters # <<>>
    /\ Dispatch([type |-> "CLEAR_ALL_FILTERS"])
    /\ UNCHANGED <<evalRows, cleanerVars, kpiVars, pageVars, parserVars, storeVars>>

NextFilter ==
    \/ \E filter \in FilterPool : AddContextFilter(filter)
    \/ ClearContextFilters

SpecFilter == InitFilter /\ [][NextFilter]_vars

(***************************************************************************)
(* The filter reducer under every action a consumer of the context can     *)
(* dispatch (SpecReducer).  handleAddFilter names a filter                 *)
(* `filter-${Date.now()}`, so two filters added within a millisecond share *)
(* an id; addFilter takes any Filter.                                      *)
(***************************************************************************)
FilterIds == {1, 2}

\* The filters handleAddFilter builds for a number and a category column, and
\* an inactive one
ReducerFilterPool ==
    { NumberFilter("between", Num(0), Num(12), TRUE),
      CategoryFilter(<< <<"a">> >>, TRUE),
      NumberFilter("equals", Num(12), Undefined, FALSE) }

\* Partial<Filter> values of UPDATE_FILTER
PartialFilters ==
    { [isActive |-> FALSE], [isActive |-> TRUE], [value |-> Num(12)], [id |-> 2] }

InitReducer ==
    /\ IdleStore
    /\ IdleParser
    /\ IdleCleaner
    /\ IdleKpi
    /\ IdlePage
    /\ evalRows = << (NameColumn :> Str(<<"a">>)) @@ (AmountColumn :> Num(12)) >>
    /\ evalFilters = initialFilterState.filters
    /\ activeFilterCount = initialFilterState.activeFilterCount
    /\ priorityColumn = initialFilterState.priorityColumn
    /\ contextFiltered = applyFilters(evalRows, evalFilters)
    /\ dashboardFiltered = DashboardFilteredData(evalRows, evalFilters)
    /\ datasetFiltered = DatasetFilteredData(evalRows, evalFilters)

addFilter(filter, id) ==
    /\ Len(evalFilters) < MaxFilters + 1
    /\ Dispatch([type |-> "ADD_FILTER", filter |-> [filter EXCEPT !.id = id]])
    /\ UNCHANGED <<evalRows, cleanerVars, kpiVars, pageVars, parserVars, storeVars>>

updateFilter(id, updates) ==
    /\ Dispatch([type |-> "UPDATE_FILTER", id |-> id, updates |-> updates])
    /\ UNCHANGED <<evalRows, cleanerVars, kpiVars, pageVars, parserVars, storeVars>>

removeFilter(id) ==
    /\ Dispatch([type |-> "REMOVE_FILTER", id |-> id])
    /\ UNCHANGED <<evalRows, cleanerVars, kpiVars, pageVars, parserVars, storeVars>>

toggleFilter(id) ==
    /\ Dispatch([type |-> "TOGGLE_FILTER", id |-> id])
    /\ UNCHANGED <<evalRows, cleanerVars, kpiVars, pageVars, parserVars, storeVars>>

setPriorityColumn(columnName) ==
    /\ Dispatch([type |-> "SET_PRIORITY_COLUMN", columnName |-> columnName])
    /\ UNCHANGED <<evalRows, cleanerVars, kpiVars, pageVars, parserVars, storeVars>>

clearAllFilters ==
    /\ Dispatch([type |-> "CLEAR_ALL_FILTERS"])
    /\ UNCHANGED <<evalRows, cleanerVars, kpiVars, pageVars, parserVars, storeVars>>

NextReducer ==
    \/ \E filter \in ReducerFilterPool, id \in FilterIds : addFilter(filter, id)
    \/ \E id \in FilterIds, updates \in PartialFilters : updateFilter(id, updates)
    \/ \E id \in FilterIds : removeFilter(id)
    \/ \E id \in FilterIds : toggleFilter(id)
    \/ \E columnName \in {Null, Str(NameColumn), Str(AmountColumn)} :
           setPriorityColumn(columnName)
    \/ clearAllFilters

SpecReducer == InitReducer /\ [][NextReducer]_vars

(***************************************************************************)
(* The dataset dashboard page (Spec).                                      *)
(***************************************************************************)
\* The characters of the model in UTF-16 order
CharOrder ==
    << " ", "-", "0", "1", "2", "3", "4", "5", "6", "7", "8", "9",
       "A", "B", "N", "a", "b", "d", "e", "f", "i", "l", "n", "u", "x" >>

CharCode(c) == CHOOSE k \in 1..Len(CharOrder) : CharOrder[k] = c

\* a < b in the default sort order of Array.prototype.sort
RECURSIVE StringLess(_, _)
StringLess(a, b) ==
    IF b = <<>> THEN FALSE
    ELSE IF a = <<>> THEN TRUE
    ELSE IF Head(a) = Head(b) THEN StringLess(Tail(a), Tail(b))
    ELSE CharCode(Head(a)) < CharCode(Head(b))

\* Array.from(new Set(strings)).sort()
SortStrings(S) ==
    [k \in 1..Cardinality(S) |->
        CHOOSE x \in S : Cardinality({y \in S : StringLess(y, x)}) = k - 1]

\* uniqueValues of a category column, recalculated from the rows
UniqueValues(rows, columnName) ==
    SortStrings({ StringOf(Cell(rows[i], columnName)) :
                    i \in { j \in 1..Len(rows) :
                              LET v == Cell(rows[j], columnName)
                              IN  v.t \notin {"null", "undefined"} /\ v # Str(<<>>) } })

PageRowPool ==
    { (NameColumn :> Str(<<"a">>)) @@ (AmountColumn :> Num(12)),
      (NameColumn :> Str(<<"b">>)) @@ (AmountColumn :> Null),
      (NameColumn :> Null) @@ (AmountColumn :> Num(12)) }

PageTables == SeqsUpTo(PageRowPool, MaxRows)

\* availableColumns of FilterPanel: the columns without a filter
AvailableColumns(current) ==
    { k \in 1..Len(DashboardColumns) :
        \A i \in 1..Len(current) : current[i].columnName # DashboardColumns[k].name }

\* filter-${Date.now()}: an id no filter of the list has
NewFilterId(current) ==
    CHOOSE id \in 1..(Len(current) + 1) : \A i \in 1..Len(current) : current[i].id # id

\* newFilter of handleAddFilter for a column without min and max
NewFilter(column, rows, id) ==
    LET filter ==
          CASE column.type = "text" ->
                 Filter(column.name, "text", "contains", Str(<<>>), Undefined, <<>>, TRUE)
            [] column.type = "number" ->
                 Filter(column.name, "number", "between", Num(0), Num(1000), <<>>, TRUE)
            [] column.type = "category" ->
                 Filter(column.name, "category", "in", Undefined, Undefined,
                        UniqueValues(rows, column.name), TRUE)
            [] OTHER ->
                 Filter(column.name, "date", "dateRange", Undefined, Undefined, <<>>, TRUE)
    IN  [filter EXCEPT !.id = id]

\* The updates FilterItem sends for a filter
FilterUpdates(filter, rows) ==
    IF filter.columnType = "number"
    THEN { [filter EXCEPT !.operator = op] :
             op \in {"equals", "greaterThan", "lessThan", "between"} }
         \cup { [filter EXCEPT !.value = v] : v \in {Num(0), Num(12)} }
         \cup { [filter EXCEPT !.valueTo = Num(12)] }
    ELSE LET uniqueValues == UniqueValues(rows, filter.columnName)
             allSelected == Len(filter.values) = Len(uniqueValues)
         IN  { [filter EXCEPT !.values =
                   IF uniqueValues[k] \in Range(filter.values)
                   THEN SelectSeq(filter.values, LAMBDA v : v # uniqueValues[k])
                   ELSE Append(filter.values, uniqueValues[k])] :
                 k \in 1..Len(uniqueValues) }
             \cup { [filter EXCEPT !.values = IF allSelected THEN <<>> ELSE uniqueValues] }

\* The effect that syncs the category filters with the recalculated uniqueValues
SyncCategoryFilters(current, rows) ==
    [ i \in 1..Len(current) |->
        LET filter == current[i]
            uniqueValues == UniqueValues(rows, filter.columnName)
            validSelectedValues ==
                SelectSeq(filter.values, LAMBDA v : v \in Range(uniqueValues))
        IN  IF filter.columnType # "category" THEN filter
            ELSE IF Len(validSelectedValues) # Len(filter.values)
                 THEN [filter EXCEPT !.values =
                          IF Len(validSelectedValues) > 0 THEN validSelectedValues
                          ELSE uniqueValues]
            ELSE filter ]

Init ==
    /\ IdleStore
    /\ IdleParser
    /\ IdleCleaner
    /\ IdleKpi
    /\ IdleFilter
    /\ IdlePage

\* The render after setFilters / setDataset: the memo is recomputed, the value
\* of useDeferredValue is the one of the previous commit.
Render(nextDataset, nextFilters) ==
    /\ dataset' = nextDataset
    /\ filters' = nextFilters
    /\ filteredData' = DatasetFilteredData(nextDataset.rows, nextFilters)
    /\ UNCHANGED <<deferredFilteredData, cleanerVars, kpiVars, filterVars,
                 parserVars, storeVars>>

\* fetchDataset of the mount effect succeeds
FetchDataset(rows) ==
    /\ ~dataset.loaded
    /\ Render([loaded |-> TRUE, rows |-> rows], filters)

\* refreshData after a row was added, edited or deleted, and the sync effect
RefreshData(rows) ==
    /\ dataset.loaded
    /\ Render([loaded |-> TRUE, rows |-> rows], SyncCategoryFilters(filters, rows))

\* handleAddFilter and onAddFilter
AddFilter(k) ==
    /\ dataset.loaded
    /\ k \in AvailableColumns(filters)
    /\ Render(dataset, Append(filters, NewFilter(DashboardColumns[k], dataset.rows,
                                                 NewFilterId(filters))))

\* onUpdateFilter
UpdateFilter(i, updated) ==
    /\ dataset.loaded
    /\ updated # filters[i]
    /\ Render(dataset, [filters EXCEPT ![i] = updated])

\* onRemoveFilter
RemoveFilter(i) ==
    /\ dataset.loaded
    /\ Render(dataset, SelectSeq(filters, LAMBDA f : f.id # filters[i].id))

\* onClearAll
ClearAll ==
    /\ dataset.loaded
    /\ filters # <<>>
    /\ Render(dataset, <<>>)

\* The deferred render of useDeferredValue commits
CommitDeferred ==
    /\ deferredFilteredData # filteredData
    /\ deferredFilteredData' = filteredData
    /\ UNCHANGED <<dataset, filters, filteredData, cleanerVars, kpiVars, filterVars,
                 parserVars, storeVars>>

Next ==
    \/ \E rows \in PageTables : FetchDataset(rows)
    \/ \E rows \in PageTables : RefreshData(rows)
    \/ \E k \in 1..Len(DashboardColumns) : AddFilter(k)
    \/ \E i \in 1..Len(filters) :
          \E updated \in FilterUpdates(filters[i], dataset.rows) : UpdateFilter(i, updated)
    \/ \E i \in 1..Len(filters) : RemoveFilter(i)
    \/ ClearAll
    \/ CommitDeferred

Spec == Init /\ [][Next]_vars

(***************************************************************************)
(* csv-parser.ts: column typing (SpecColumn).                              *)
(***************************************************************************)
\* v !== null && v !== undefined && v !== ''
NonEmpty(v) == v.t \notin {"null", "undefined"} /\ v # Str(<<>>)

Take(seq, k) == SubSeq(seq, 1, IF Len(seq) < k THEN Len(seq) ELSE k)

\* The number of values sampled for the detection
SampleSize == 100

categoryThreshold == 30

\* One of the four datePatterns: groups of digits of the given widths joined by
\* the separator
DigitGroups(str, first, second, third, separator) ==
    /\ Len(str) = first + second + third + 2
    /\ IsDigits(SubSeq(str, 1, first))
    /\ str[first + 1] = separator
    /\ IsDigits(SubSeq(str, first + 2, first + second + 1))
    /\ str[first + second + 2] = separator
    /\ IsDigits(SubSeq(str, first + second + 3, Len(str)))

MatchesDatePattern(str) ==
    \/ DigitGroups(str, 4, 2, 2, "-")
    \/ DigitGroups(str, 2, 2, 4, "/")
    \/ DigitGroups(str, 2, 2, 4, "-")
    \/ DigitGroups(str, 4, 2, 2, "/")

\* The isDate test of one value.  Apart from the patterns, the texts of the
\* model are at most 6 characters long, so the new Date disjunct is false for
\* them whatever the engine makes of the text.
IsDateValue(v) ==
    \/ MatchesDatePattern(StringOf(v))
    \/ ParseDate(StringOf(v)).t = "date" /\ Len(StringOf(v)) > 6

\* String(v).replace(/[,$]/g, '')
StripNumberMarks(str) == SelectSeq(str, LAMBDA c : c \notin {",", "$"})

\* The longest prefix of digits
RECURSIVE DigitPrefix(_)
DigitPrefix(str) ==
    IF str = <<>> \/ Head(str) \notin Range(DigitChars) THEN <<>>
    ELSE <<Head(str)>> \o DigitPrefix(Tail(str))

\* parseFloat on texts without fraction or exponent: blanks are skipped, then a
\* sign and the longest run of digits is read; NaN when there is no digit
ParseFloat(str) ==
    LET text == TrimStart(str)
        negative == text # <<>> /\ Head(text) = "-"
        digits == DigitPrefix(IF negative THEN Tail(text) ELSE text)
    IN  IF digits = <<>> THEN NaN
        ELSE IF negative THEN Num(0 - DigitsToNat(digits))
        ELSE Num(DigitsToNat(digits))

IsNumberValue(v) == ParseFloat(StripNumberMarks(StringOf(v))).t = "number"

NameLikeKeywords ==
    { <<"c","u","s","t","o","m","e","r">>, <<"c","l","i","e","n","t">>,
      <<"n","a","m","e">>, <<"u","s","e","r">>, <<"b","u","y","e","r">>,
      <<"s","e","l","l","e","r">>, <<"v","e","n","d","o","r">>,
      <<"s","u","p","p","l","i","e","r">>, <<"p","e","r","s","o","n">>,
      <<"e","m","p","l","o","y","e","e">>, <<"s","t","a","f","f">>,
      <<"a","g","e","n","t">> }

isNameLikeColumn(name) ==
    \E keyword \in NameLikeKeywords : Includes(ToLowerCase(name), keyword)

\* Mutant of detectColumnType: the repetition test is >= instead of >
MutDetectRepetitionInclusive(values, name) ==
    LET nonEmptyValues == SelectSeq(values, NonEmpty)
        sampleValues == Take(nonEmptyValues, SampleSize)
        uniqueValues == Range(sampleValues)
    IN  IF Len(nonEmptyValues) = 0 THEN "text"
        ELSE IF \A i \in 1..Len(sampleValues) : IsDateValue(sampleValues[i]) THEN "date"
        ELSE IF \A i \in 1..Len(sampleValues) : IsNumberValue(sampleValues[i]) THEN "number"
        ELSE IF isNameLikeColumn(name) /\ Len(nonEmptyValues) >= 2 THEN "category"
        ELSE IF /\ ~isNameLikeColumn(name)
                /\ Cardinality(uniqueValues) <= categoryThreshold
                /\ Len(nonEmptyValues) >= Cardinality(uniqueValues) * 2
             THEN "category"
        ELSE "text"

\* Mutant of detectColumnType: name-like columns get the cardinality rule too
MutDetectNoNameOverride(values, name) ==
    LET nonEmptyValues == SelectSeq(values, NonEmpty)
        sampleValues == Take(nonEmptyValues, SampleSize)
        uniqueValues == Range(sampleValues)
    IN  IF Len(nonEmptyValues) = 0 THEN "text"
        ELSE IF \A i \in 1..Len(sampleValues) : IsDateValue(sampleValues[i]) THEN "date"
        ELSE IF \A i \in 1..Len(sampleValues) : IsNumberValue(sampleValues[i]) THEN "number"
        ELSE IF /\ Cardinality(uniqueValues) <= categoryThreshold
                /\ Len(nonEmptyValues) > Cardinality(uniqueValues) * 2
             THEN "category"
        ELSE "text"

detectColumnType(values, name) ==
    LET nonEmptyValues == SelectSeq(values, NonEmpty)
        sampleValues == Take(nonEmptyValues, SampleSize)
        uniqueValues == Range(sampleValues)
    IN  IF Len(nonEmptyValues) = 0 THEN "text"
        ELSE IF \A i \in 1..Len(sampleValues) : IsDateValue(sampleValues[i]) THEN "date"
        ELSE IF \A i \in 1..Len(sampleValues) : IsNumberValue(sampleValues[i]) THEN "number"
        ELSE IF isNameLikeColumn(name) /\ Len(nonEmptyValues) >= 2 THEN "category"
        ELSE IF /\ ~isNameLikeColumn(name)
                /\ Cardinality(uniqueValues) <= categoryThreshold
                /\ Len(nonEmptyValues) > Cardinality(uniqueValues) * 2
             THEN "category"
        ELSE "text"

getUniqueValues(values) ==
    SortStrings({ StringOf(values[i]) : i \in {j \in 1..Len(values) : NonEmpty(values[j])} })

\* The type and uniqueValues of the ColumnInfo built for a header
BuildColumnInfo(values, name) ==
    LET type == detectColumnType(values, name)
    IN  [ type |-> type,
          uniqueValues |-> IF type = "category" THEN getUniqueValues(values) ELSE <<>> ]

\* The k-th value of a column of words, of numbers, of dates, or of words and
\* numbers mixed
TwoDigits(k) == IF k < 10 THEN <<"0">> \o NatToString(k) ELSE NatToString(k)

ValueOf(kind, k) ==
    CASE kind = "words" -> Str(<<"x">> \o NatToString(k))
      [] kind = "numbers" -> Str(NatToString(k))
      [] kind = "dates" ->
            Str(<<"2","0","2","4","-","0","1","-">> \o TwoDigits((k % 28) + 1))
      [] OTHER -> IF k % 2 = 1 THEN Str(<<"x">> \o NatToString(k)) ELSE Str(NatToString(k))

ValueKinds == {"words", "numbers", "dates", "mixed"}

\* A column of count values after gaps empty cells: the first SampleSize values
\* cycle through distinct different values, the later ones are all new
ColumnOf(kind, distinct, count, gaps) ==
    [ i \in 1..(gaps + count) |->
        IF i <= gaps THEN (IF i % 2 = 1 THEN Str(<<>>) ELSE Null)
        ELSE LET k == i - gaps
             IN  ValueOf(kind, IF k <= SampleSize THEN ((k - 1) % distinct) + 1
                               ELSE distinct + (k - SampleSize)) ]

DistinctCounts == {1, 2, 3, categoryThreshold, categoryThreshold + 1, 50}

ValueCounts(distinct) == {0, 1, 2, 2 * distinct, 2 * distinct + 1, 50, SampleSize + 2}

ColumnHeaders ==
    { <<>>, <<"R","e","g","i","o","n">>,
      <<"C","u","s","t","o","m","e","r"," ","N","a","m","e">>, <<"U","S","E","R">> }

InitColumn ==
    /\ IdleStore
    /\ IdleCleaner
    /\ IdleKpi
    /\ IdleFilter
    /\ IdlePage
    /\ IdleCsv
    /\ IdleChart
    /\ colName \in ColumnHeaders
    /\ \E kind \in ValueKinds, distinct \in DistinctCounts, gaps \in {0, 2} :
          \E count \in ValueCounts(distinct) :
              colValues = ColumnOf(kind, distinct, count, gaps)
    /\ colInfo = NoColumnInfo

\* headers.map(header => ...): the column is typed and, if a category, gets its
\* uniqueValues
TypeColumn ==
    /\ colInfo = NoColumnInfo
    /\ colInfo' = BuildColumnInfo(colValues, colName)
    /\ UNCHANGED <<colName, colValues, csvVars, chartVars, cleanerVars, kpiVars,
                   filterVars, pageVars, storeVars>>

NextColumn == TypeColumn

SpecColumn == InitColumn /\ [][NextColumn]_vars

(***************************************************************************)
(* csv-parser.ts: parsing and export (SpecCsv).                            *)
(***************************************************************************)
\* parts.join(separator), halving the parts
RECURSIVE Join(_, _)
Join(parts, separator) ==
    IF parts = <<>> THEN <<>>
    ELSE IF Len(parts) = 1 THEN Head(parts)
    ELSE LET half == Len(parts) \div 2
         IN  Join(SubSeq(parts, 1, half), separator) \o <<separator>>
                 \o Join(SubSeq(parts, half + 1, Len(parts)), separator)

\* str.split(separator): the pieces between the separators
Split(str, separator) ==
    LET cuts == SortedSeq({i \in 1..Len(str) : str[i] = separator})
    IN  [k \in 1..(Len(cuts) + 1) |->
            SubSeq(str, IF k = 1 THEN 1 ELSE cuts[k - 1] + 1,
                        IF k > Len(cuts) THEN Len(str) ELSE cuts[k] - 1)]

\* The civil date of a day number, the inverse of DaysFromCivil
CivilFromDays(days) ==
    LET z   == days + 719468
        era == z \div 146097
        doe == z - era * 146097
        yoe == (doe - doe \div 1460 + doe \div 36524 - doe \div 146096) \div 365
        doy == doe - (365 * yoe + yoe \div 4 - yoe \div 100)
        mp  == (5 * doy + 2) \div 153
        d   == doy - (153 * mp + 2) \div 5 + 1
        m   == IF mp < 10 THEN mp + 3 ELSE mp - 9
    IN  [year |-> yoe + era * 400 + (IF m <= 2 THEN 1 ELSE 0), month |-> m, day |-> d]

\* The year of an ISO date, four digits
FourDigits(k) ==
    IF k < 10 THEN <<"0","0","0">> \o NatToString(k)
    ELSE IF k < 100 THEN <<"0","0">> \o NatToString(k)
    ELSE IF k < 1000 THEN <<"0">> \o NatToString(k)
    ELSE NatToString(k)

\* value.toISOString().split('T')[0] of a valid Date
ToISODate(date) ==
    LET civil == CivilFromDays(date.n)
    IN  FourDigits(civil.year) \o <<"-">> \o TwoDigits(civil.month) \o <<"-">>
            \o TwoDigits(civil.day)

\* The field lines Papa reads off a text without quote characters: records end
\* at "\n", fields at ","; with skipEmptyLines a record that is one empty field
\* is dropped
PapaLines(text) ==
    LET records == Split(text, "\n")
        fields == [i \in 1..Len(records) |-> Split(records[i], ",")]
    IN  SelectSeq(fields, LAMBDA line : line # << <<>> >>)

\* Papa's delimiter guess succeeds when the records average more than 1.99
\* fields; otherwise it reports an error and falls back to ","
UndetectableDelimiter(lines) ==
    100 * SumSeq([i \in 1..Len(lines) |-> Len(lines[i])]) <= 199 * Len(lines)

\* The object Papa makes of one record under header: true; fields beyond the
\* header go to __parsed_extra, which no column reads
PapaRow(fields, line) ==
    [ header \in {fields[i] : i \in 1..(IF Len(line) < Len(fields) THEN Len(line)
                                         ELSE Len(fields))} |->
        Str(line[CHOOSE i \in 1..Len(fields) : fields[i] = header]) ]

\* Papa.parse(file, {header: true, skipEmptyLines: true}): results.data,
\* results.meta.fields and the number of results.errors
PapaParse(text) ==
    LET lines == PapaLines(text)
        fields == IF lines = <<>> THEN <<>> ELSE Head(lines)
        records == IF lines = <<>> THEN <<>> ELSE Tail(lines)
    IN  [ data |-> [i \in 1..Len(records) |-> PapaRow(fields, records[i])],
          fields |-> fields,
          errors |-> (IF UndetectableDelimiter(lines) THEN 1 ELSE 0)
                     + Cardinality({i \in 1..Len(records) :
                                        Len(records[i]) # Len(fields)}) ]

\* The number of arguments one call can take.  Engines bound it (65,536 in
\* JavaScriptCore, about 120,000 on V8's default stack) and throw a RangeError
\* beyond; a file within the size ceiling holds millions of short records.  The
\* bound is scaled down here, but stays above the values sampled for the type
\* of a column.
ArgumentLimit == 104

\* numbers of getNumberRange
RangeNumbers(values) ==
    LET present == SelectSeq(values, NonEmpty)
        parsed == [i \in 1..Len(present) |->
                       ParseFloat(StripNumberMarks(StringOf(present[i])))]
    IN  SelectSeq(parsed, LAMBDA n : n.t = "number")

\* Math.min(...numbers) and Math.max(...numbers) throw when numbers has more
\* elements than a call takes arguments
RangeThrows(values) == Len(RangeNumbers(values)) > ArgumentLimit

getNumberRange(values) ==
    LET numbers == {RangeNumbers(values)[i].n : i \in 1..Len(RangeNumbers(values))}
    IN  [min |-> Num(CHOOSE n \in numbers : \A m \in numbers : n <= m),
         max |-> Num(CHOOSE n \in numbers : \A m \in numbers : n >= m)]

\* The values of a column: row[header] of every row
ColumnValues(rows, header) == [i \in 1..Len(rows) |-> Cell(rows[i], header)]

\* columnInfo of one header (sampleValues, which nothing in the parser reads
\* back, is left out)
ColumnInfoOf(rows, header) ==
    LET values == ColumnValues(rows, header)
        info == BuildColumnInfo(values, header)
    IN  [ name |-> header, type |-> info.type, uniqueValues |-> info.uniqueValues,
          min |-> IF info.type = "number" THEN getNumberRange(values).min ELSE Undefined,
          max |-> IF info.type = "number" THEN getNumberRange(values).max ELSE Undefined ]

\* Building the columns throws when getNumberRange does for a number column
ColumnsThrow(rows, headers) ==
    \E k \in 1..Len(headers) :
        /\ detectColumnType(ColumnValues(rows, headers[k]), headers[k]) = "number"
        /\ RangeThrows(ColumnValues(rows, headers[k]))

BuildColumns(rows, headers) == [k \in 1..Len(headers) |-> ColumnInfoOf(rows, headers[k])]

\* typedRow[col.name] of one cell
TypedCell(value, type) ==
    IF value.t \in {"null", "undefined"} \/ value = Str(<<>>) THEN Null
    ELSE IF type = "number" THEN ParseFloat(StripNumberMarks(StringOf(value)))
    ELSE IF type = "date" THEN ToDate(value)
    ELSE value

TypedRows(rows, columns) ==
    [ i \in 1..Len(rows) |->
        [ name \in ColumnNames(columns) |->
            TypedCell(Cell(rows[i], name),
                      columns[CHOOSE k \in 1..Len(columns) :
                                  /\ columns[k].name = name
                                  /\ \A j \in (k + 1)..Len(columns) :
                                         columns[j].name # name].type) ] ]

\* CsvErrorCode
CsvErrorCodes == {"CSV_INVALID", "CSV_EMPTY", "NO_HEADER", "PARSE_ERROR", "FILE_TOO_LARGE"}

\* resolve({success: false, error, errorCode})
Failure(errorCode) ==
    [settled |-> TRUE, success |-> FALSE, errorCode |-> errorCode, columns |-> <<>>,
     rows |-> <<>>, thrown |-> ""]

\* resolve({success: true, data: csvData})
Success(columns, rows) ==
    [settled |-> TRUE, success |-> TRUE, errorCode |-> "", columns |-> columns,
     rows |-> rows, thrown |-> ""]

\* An exception leaves the callback: the promise is never resolved
Uncaught(error) ==
    [settled |-> FALSE, success |-> FALSE, errorCode |-> "", columns |-> <<>>,
     rows |-> <<>>, thrown |-> error]

parseCsvFile(file) ==
    IF ~file.readable THEN Failure("PARSE_ERROR")
    ELSE LET results == PapaParse(file.text)
         IN  IF results.errors > 0 /\ Len(results.data) = 0 THEN Failure("PARSE_ERROR")
             ELSE IF Len(results.data) = 0 THEN Failure("CSV_EMPTY")
             ELSE IF Len(results.fields) = 0 THEN Failure("NO_HEADER")
             ELSE IF ColumnsThrow(results.data, results.fields) THEN Uncaught("RangeError")
             ELSE LET columns == BuildColumns(results.data, results.fields)
                  IN  Success(columns, TypedRows(results.data, columns))

\* headers of parseExcel: String(h || '').trim(), the empty ones dropped
ExcelHeaders(first) ==
    LET names == [i \in 1..Len(first) |->
                      IF Falsy(first[i]) THEN <<>> ELSE Trim(StringOf(first[i]))]
    IN  SelectSeq(names, LAMBDA h : h # <<>>)

\* rowData[header] of parseExcel
ExcelCell(row, i) ==
    IF i > Len(row) THEN Str(<<>>)
    ELSE IF row[i].t = "date" THEN Str(ToISODate(row[i]))
    ELSE IF row[i].t \in {"null", "undefined"} THEN Str(<<>>)
    ELSE Str(StringOf(row[i]))

\* rows of parseExcel: the rows with some value other than ''
ExcelRows(jsonData, headers) ==
    LET rows == [r \in 1..(Len(jsonData) - 1) |->
                     [ header \in Range(headers) |->
                         ExcelCell(jsonData[r + 1],
                                   CHOOSE i \in 1..Len(headers) :
                                       /\ headers[i] = header
                                       /\ \A j \in (i + 1)..Len(headers) :
                                              headers[j] # header) ] ]
    IN  SelectSeq(rows, LAMBDA row : \E header \in DOMAIN row : row[header] # Str(<<>>))

parseExcel(file) ==
    IF ~file.readable THEN Failure("PARSE_ERROR")
    ELSE IF file.workbook.corrupt THEN Failure("PARSE_ERROR")
    ELSE IF file.workbook.sheets = <<>> THEN Failure("CSV_EMPTY")
    ELSE LET jsonData == file.workbook.sheets[1]
         IN  IF Len(jsonData) < 2 THEN Failure("CSV_EMPTY")
             ELSE LET headers == ExcelHeaders(jsonData[1])
                      rows == ExcelRows(jsonData, headers)
                  IN  IF ColumnsThrow(rows, headers) THEN Failure("PARSE_ERROR")
                      ELSE Success(BuildColumns(rows, headers),
                                   TypedRows(rows, BuildColumns(rows, headers)))

\* The size ceiling of parseCsv, in bytes
FileSizeLimit == 10 * 1024 * 1024

DotXlsx == <<".","x","l","s","x">>

DotXls == <<".","x","l","s">>

DotCsv == <<".","c","s","v">>

parseCsv(file) ==
    IF file.size > FileSizeLimit THEN Failure("FILE_TOO_LARGE")
    ELSE LET fileName == ToLowerCase(file.name)
         IN  IF EndsWith(fileName, DotXlsx) \/ EndsWith(fileName, DotXls)
                 THEN parseExcel(file)
             ELSE IF EndsWith(fileName, DotCsv) THEN parseCsvFile(file)
             ELSE Failure("CSV_INVALID")

\* The text convertToCsv writes for one cell of a row
ExportCell(value) ==
    IF value.t \in {"null", "undefined"} THEN <<>>
    ELSE IF value.t = "date" THEN ToISODate(value)
    ELSE IF value.t = "string" /\ (\E i \in 1..Len(value.s) : value.s[i] \in {",", "\""})
         THEN <<"\"">>
              \o Flatten([i \in 1..Len(value.s) |->
                             IF value.s[i] = "\"" THEN <<"\"", "\"">> ELSE <<value.s[i]>>])
              \o <<"\"">>
    ELSE StringOf(value)

\* toISOString of an Invalid Date throws a RangeError
ExportThrows(data, columns) ==
    \E i \in 1..Len(data), k \in 1..Len(columns) :
        Cell(data[i], columns[k].name).t = "invalid-date"

\* convertToCsv(data, columns): the text, or the error thrown
convertToCsv(data, columns) ==
    LET headers == [k \in 1..Len(columns) |-> columns[k].name]
        csvRows == [i \in 1..Len(data) |->
                       Join([k \in 1..Len(headers) |-> ExportCell(Cell(data[i], headers[k]))],
                            ",")]
    IN  IF Len(data) = 0 THEN [text |-> <<>>, thrown |-> ""]
        ELSE IF ExportThrows(data, columns) THEN [text |-> <<>>, thrown |-> "RangeError"]
        ELSE [text |-> Join(<<Join(headers, ",")>> \o csvRows, "\n"), thrown |-> ""]

\* The cell texts of the files: a word, a number, nothing, a date and a text
\* that has the shape of a date but names no day
CsvCellTexts ==
    { <<"a">>, <<"1","2">>, <<>>, <<"2","0","2","4","-","0","1","-","0","2">>,
      <<"2","0","2","4","-","1","3","-","4","5">> }

AmountCellTexts == { <<"1","2">>, <<>> }

\* The text of a file with the given records
TextOf(lines) == Join([i \in 1..Len(lines) |-> Join(lines[i], ",")], "\n")

\* Files of up to MaxRows records under the header name or name,amount
GridTexts ==
    { TextOf(<< <<NameColumn>> >> \o [i \in 1..Len(cells) |-> <<cells[i]>>]) :
          cells \in SeqsUpTo(CsvCellTexts, MaxRows) }
    \cup { TextOf(<< <<NameColumn, AmountColumn>> >> \o records) :
               records \in SeqsUpTo({ <<n, a>> : n \in CsvCellTexts, a \in AmountCellTexts },
                                    MaxRows) }

\* Texts off the grid: nothing, a header alone, a short and a long record, blank
\* lines, and a column of more numbers than a call takes arguments
OddTexts ==
    { <<>>,
      TextOf(<< <<NameColumn, AmountColumn>> >>),
      TextOf(<< <<NameColumn, AmountColumn>>, << <<"a">> >> >>),
      TextOf(<< <<NameColumn>>, << <<"a">>, <<"1","2">> >> >>),
      TextOf(<< << <<>> >>, <<NameColumn>>, << <<>> >>, << <<"a">> >> >>),
      TextOf(<< <<AmountColumn>> >> \o [i \in 1..(ArgumentLimit + 1) |-> << <<"1","2">> >>]) }

\* What XLSX.read makes of the bytes: it throws, or yields the sheets, each an
\* array of rows
CorruptWorkbook == [corrupt |-> TRUE, sheets |-> <<>>]

Workbook(sheets) == [corrupt |-> FALSE, sheets |-> sheets]

Workbooks ==
    { CorruptWorkbook,
      Workbook(<<>>),
      Workbook(<< <<>> >>),
      Workbook(<< << <<Str(NameColumn), Str(AmountColumn)>> >> >>),
      Workbook(<< << <<Str(NameColumn), Str(AmountColumn)>>, <<Str(<<"a">>), Num(12)>> >> >>),
      Workbook(<< << <<Str(<<" ">> \o NameColumn), Null, Str(AmountColumn)>>,
                     <<Jan2, Str(<<>>), Num(12)>>,
                     <<Str(<<>>), Str(<<>>), Str(<<>>)>> >> >>),
      Workbook(<< << <<Str(AmountColumn)>> >>
                  \o [i \in 1..(ArgumentLimit + 1) |-> <<Num(12)>>] >>) }

FileNames ==
    { <<"a">> \o DotCsv, <<"A",".","C","S","V">>, <<"a">> \o DotXlsx,
      <<"a",".","X","L","S">>, <<"a",".","t","x","t">>, <<"c","s","v">> }

File(size, name, text, workbook, readable) ==
    [size |-> size, name |-> name, text |-> text, workbook |-> workbook,
     readable |-> readable]

\* The files handed to parseCsv: the grids as .csv files, and the odd texts and
\* the workbooks under every name, size and FileReader outcome
CsvFilePool ==
    { File(Len(text), <<"a">> \o DotCsv, text, CorruptWorkbook, TRUE) : text \in GridTexts }
    \cup { File(size, name, content.text, content.workbook, readable) :
               content \in { [text |-> text, workbook |-> CorruptWorkbook] :
                                 text \in OddTexts }
                           \cup { [text |-> <<>>, workbook |-> workbook] :
                                      workbook \in Workbooks },
               name \in FileNames,
               size \in {1024, FileSizeLimit, FileSizeLimit + 1},
               readable \in BOOLEAN }

InitCsv ==
    /\ IdleStore
    /\ IdleCleaner
    /\ IdleKpi
    /\ IdleFilter
    /\ IdlePage
    /\ IdleColumn
    /\ IdleChart
    /\ csvFile \in CsvFilePool
    /\ csvResult = NoResult
    /\ csvExport = NoExport
    /\ csvReimport = NoResult

\* handleFileUpload: const result = await parseCsv(file)
ParseCsv ==
    /\ csvResult = NoResult
    /\ csvResult' = parseCsv(csvFile)
    /\ UNCHANGED <<csvFile, csvExport, csvReimport, columnVars, chartVars, cleanerVars,
                   kpiVars, filterVars, pageVars, storeVars>>

\* The rows at the kept positions, in order
KeptRows(rows, keep) ==
    [k \in 1..Cardinality(keep) |-> rows[SortedSeq(keep)[k]]]

\* handleExport: convertToCsv(filteredData, csvData.columns), filteredData being
\* the rows the filters keep
ExportCsv(keep) ==
    /\ csvResult.success
    /\ ~csvExport.done
    /\ LET data == KeptRows(csvResult.rows, keep)
           content == convertToCsv(data, csvResult.columns)
       IN  csvExport' = [done |-> TRUE, rows |-> data, text |-> content.text,
                         thrown |-> content.thrown]
    /\ UNCHANGED <<csvFile, csvResult, csvReimport, columnVars, chartVars, cleanerVars,
                   kpiVars, filterVars, pageVars, storeVars>>

\* The exported text is parsed again
Reimport ==
    /\ csvExport.done
    /\ csvExport.thrown = ""
    /\ csvReimport = NoResult
    /\ csvReimport' = parseCsvFile(File(Len(csvExport.text), csvFile.name, csvExport.text,
                                        CorruptWorkbook, TRUE))
    /\ UNCHANGED <<csvFile, csvResult, csvExport, columnVars, chartVars, cleanerVars,
                   kpiVars, filterVars, pageVars, storeVars>>

NextCsv ==
    \/ ParseCsv
    \/ \E keep \in SUBSET (1..Len(csvResult.rows)) : ExportCsv(keep)
    \/ Reimport

SpecCsv == InitCsv /\ [][NextCsv]_vars

(***************************************************************************)
(* kpi-calculator.ts: aggregateByColumn and the chart (SpecChart).         *)
(***************************************************************************)
Unknown == <<"U","n","k","n","o","w","n">>

\* groupKey of a row
GroupKey(row, groupByColumn) == StringOf(Coalesce(Cell(row, groupByColumn), Str(Unknown)))

\* Number(row[valueColumn]) || 0
GroupValue(row, valueColumn) ==
    LET value == ToNumber(Cell(row, valueColumn))
    IN  IF value.t = "number" THEN value.n ELSE 0

\* Array.from(groups.entries()): the keys in the order in which the Map got
\* them, each with the values pushed to it
RECURSIVE GroupEntries(_, _, _, _)
GroupEntries(data, groupByColumn, valueColumn, groups) ==
    IF data = <<>> THEN groups
    ELSE LET groupKey == GroupKey(Head(data), groupByColumn)
             value == GroupValue(Head(data), valueColumn)
             known == {k \in 1..Len(groups) : groups[k].name = groupKey}
         IN  GroupEntries(Tail(data), groupByColumn, valueColumn,
                          IF known = {}
                          THEN Append(groups, [name |-> groupKey, values |-> <<value>>])
                          ELSE [k \in 1..Len(groups) |->
                                   IF k \in known
                                   THEN [groups[k] EXCEPT !.values = Append(@, value)]
                                   ELSE groups[k]])

\* The value of a bucket under the aggregation
Aggregated(values, aggregation) ==
    CASE aggregation = "sum" -> SumSeq(values)
      [] aggregation = "count" -> Len(values)
      [] OTHER -> IF Len(values) > 0 THEN Divide(SumSeq(values), Len(values)) ELSE 0

\* Mutant of InsertBucket: a bucket goes before the buckets of equal value
RECURSIVE MutInsertBucketBeforeTies(_, _)
MutInsertBucketBeforeTies(sorted, bucket) ==
    IF sorted = <<>> THEN <<bucket>>
    ELSE IF Head(sorted).value - bucket.value > 0
         THEN <<Head(sorted)>> \o MutInsertBucketBeforeTies(Tail(sorted), bucket)
    ELSE <<bucket>> \o sorted

\* sort((a, b) => b.value - a.value), which is stable: a bucket goes behind the
\* buckets already placed that do not compare after it
RECURSIVE InsertBucket(_, _)
InsertBucket(sorted, bucket) ==
    IF sorted = <<>> THEN <<bucket>>
    ELSE IF Head(sorted).value - bucket.value >= 0
         THEN <<Head(sorted)>> \o InsertBucket(Tail(sorted), bucket)
    ELSE <<bucket>> \o sorted

RECURSIVE SortBuckets(_, _)
SortBuckets(buckets, sorted) ==
    IF buckets = <<>> THEN sorted
    ELSE SortBuckets(Tail(buckets), InsertBucket(sorted, Head(buckets)))

aggregateByColumn(data, groupByColumn, valueColumn, aggregation) ==
    LET groups == GroupEntries(data, groupByColumn, valueColumn, <<>>)
    IN  SortBuckets([k \in 1..Len(groups) |->
                        [name |-> groups[k].name,
                         value |-> Aggregated(groups[k].values, aggregation)]],
                    <<>>)

\* The bars of the chart: the first ten buckets
TopBuckets == 10

\* chartData of ChartContainer
ChartData(data, groupByColumn, valueColumn) ==
    IF groupByColumn = <<>> \/ valueColumn = <<>> \/ Len(data) = 0 THEN <<>>
    ELSE Take(aggregateByColumn(data, groupByColumn, valueColumn, "sum"), TopBuckets)

\* Rows of the chart: a name that is a word, a number or null, and an amount
\* that is a number, null or a word
ChartRowPool ==
    { (NameColumn :> name) @@ (AmountColumn :> amount) :
          name \in {Str(<<"a">>), Str(<<"b">>), Null, Num(12)},
          amount \in {Num(12), Num(24), Null, Str(<<"x">>)} }

ChartTables == SeqsUpTo(ChartRowPool, MaxRows)

Aggregations == {"sum", "count", "average"}

InitChart ==
    /\ IdleStore
    /\ IdleCleaner
    /\ IdleKpi
    /\ IdleFilter
    /\ IdlePage
    /\ IdleColumn
    /\ IdleCsv
    /\ chartRows \in ChartTables
    /\ chartData = NoChart

\* A call of aggregateByColumn
Aggregate(groupByColumn, valueColumn, aggregation) ==
    /\ chartData = NoChart
    /\ chartData' = [aggregation |-> aggregation, groupByColumn |-> groupByColumn,
                     valueColumn |-> valueColumn, limit |-> 0,
                     buckets |-> aggregateByColumn(chartRows, groupByColumn, valueColumn,
                                                   aggregation)]
    /\ UNCHANGED <<chartRows, columnVars, csvVars, cleanerVars, kpiVars, filterVars,
                   pageVars, storeVars>>

\* ChartContainer renders its bar chart
RenderChart(groupByColumn, valueColumn) ==
    /\ chartData = NoChart
    /\ chartData' = [aggregation |-> "sum", groupByColumn |-> groupByColumn,
                     valueColumn |-> valueColumn, limit |-> TopBuckets,
                     buckets |-> ChartData(chartRows, groupByColumn, valueColumn)]
    /\ UNCHANGED <<chartRows, columnVars, csvVars, cleanerVars, kpiVars, filterVars,
                   pageVars, storeVars>>

NextChart ==
    \/ \E groupByColumn \in {NameColumn, AmountColumn}, valueColumn \in {NameColumn, AmountColumn},
          aggregation \in Aggregations :
          Aggregate(groupByColumn, valueColumn, aggregation)
    \/ \E groupByColumn \in {NameColumn, AmountColumn}, valueColumn \in {NameColumn, AmountColumn} :
          RenderChart(groupByColumn, valueColumn)

SpecChart == InitChart /\ [][NextChart]_vars

(***************************************************************************)
(* data-cleaner.ts: the fill strategies on longer tables (SpecFill).       *)
(***************************************************************************)
\* Rows for the fill strategies: two words and a placeholder as names, two
\* numbers and null as amounts
FillRows ==
    { (NameColumn :> name) @@ (AmountColumn :> amount) :
          name \in {Str(<<"a">>), Str(<<"b">>), Str(<<" ","N","/","A"," ">>)},
          amount \in {Null, Num(12), Num(24)} }

FillTables == SeqsUpTo(FillRows, MaxRows + 1)

\* The options that fill missing values after the row-removing steps
FillOptionSets ==
    { o \in CleaningOptionSets :
        /\ o.handleMissingValues
        /\ o.missingValueStrategy # "remove_row"
        /\ ~o.trimWhitespace
        /\ ~o.normalizeCase
        /\ o.columnsToClean = <<>> }

InitFill ==
    /\ IdleStore
    /\ IdleParser
    /\ IdleKpi
    /\ IdleFilter
    /\ IdlePage
    /\ inputRows \in FillTables
    /\ options = getDefaultCleaningOptions
    /\ summary = NoSummary
    /\ preview = NoPreview
    /\ cleaned = NoRun
    /\ recleaned = NoRun
    /\ cleanerStep = "loaded"

NextFill ==
    \/ AnalyzeData
    \/ \E chosen \in FillOptionSets : ApplyCleaning(chosen)

SpecFill == InitFill /\ [][NextFill]_vars

(***************************************************************************)
(* The CSV dashboard: a parsed file and its KPIs (SpecUpload).             *)
(***************************************************************************)
QtyColumn == <<"q","t","y">>

\* Cells that end a column: a word, a number, a number followed by letters
TailCellTexts == { <<"a">>, <<"1","2">>, <<"1","2","a">> }

\* One-column files: some records "12" and then up to MaxRows other cells, so
\* that the tail falls inside or beyond the values sampled for the type
LongTexts ==
    { TextOf(<< <<header>> >> \o [i \in 1..count |-> << <<"1","2">> >>]
             \o [i \in 1..Len(tail) |-> <<tail[i]>>]) :
          header \in {AmountColumn, QtyColumn},
          count \in {1, SampleSize - 1, SampleSize, SampleSize + 1},
          tail \in SeqsUpTo(TailCellTexts, MaxRows) }

InitUpload ==
    /\ IdleStore
    /\ IdleCleaner
    /\ IdleFilter
    /\ IdlePage
    /\ IdleColumn
    /\ IdleChart
    /\ IdleKpi
    /\ csvFile \in { File(Len(text), <<"a">> \o DotCsv, text, CorruptWorkbook, TRUE) :
                         text \in LongTexts }
    /\ csvResult = NoResult
    /\ csvExport = NoExport
    /\ csvReimport = NoResult

\* The dashboard renders the parsed table without filters: its KPIs are
\* calculateKpis(filteredData, detectKpiColumns(csvData.columns))
ShowKpis ==
    /\ csvResult.success
    /\ kpiStep = "columns"
    /\ kpiColumns' = [k \in 1..Len(csvResult.columns) |->
                         [name |-> csvResult.columns[k].name,
                          type |-> csvResult.columns[k].type]]
    /\ kpiRows' = csvResult.rows
    /\ kpiConfig' = detectKpiColumns(kpiColumns')
    /\ kpiData' = calculateKpis(csvResult.rows, kpiConfig')
    /\ kpiStep' = "calculated"
    /\ UNCHANGED <<cleanerVars, filterVars, pageVars, parserVars, storeVars>>

NextUpload ==
    \/ ParseCsv
    \/ ShowKpis

SpecUpload == InitUpload /\ [][NextUpload]_vars

(***************************************************************************)
(* Persistence: the API routes over the database and the two clients that  *)
(* call them in several requests, saveDataset (useDataset.ts) and          *)
(* handleCleanComplete (the dataset page).  A request is one step; its     *)
(* outcome is "ok", "error" (the route answers success: false and has      *)
(* written nothing) or "network" (fetch or response.json() throws and the  *)
(* route has written nothing).  One dataset is followed.                   *)
(***************************************************************************)

\* const CHUNK_SIZE = 200 of saveDataset, scaled to 2
CHUNK_SIZE == 2

\* const MAX_ROWS_PER_REQUEST = 1000 of the clean route, which is also the
\* CHUNK_SIZE = 1000 of handleCleanComplete; scaled to 2
MAX_ROWS_PER_REQUEST == 2

\* const BATCH_SIZE = 500 of the clean route: half a request, scaled to 1
BATCH_SIZE == 1

Outcomes == {"ok", "error", "network"}

\* The two POST handlers the sources hold for /api/datasets/[id]/clean
CleanRoutes == {"transaction", "chunked"}

\* The contents of a data row
RowData == {"a", "b"}

\* Tables of up to three requests
Payloads == SeqsUpTo(RowData, 2 * CHUNK_SIZE + 1)

\* Tables of one content, for the runs that interleave every client
PlainPayloads == SeqsUpTo({"a"}, CHUNK_SIZE + 1)

\* Math.ceil(n / size)
Ceil(n, size) == (n + size - 1) \div size

\* rows.slice(start, end)
Slice(rows, start, end) == SubSeq(rows, start + 1, IF end < Len(rows) THEN end ELSE Len(rows))

\* batch.map((row, index) => ({ datasetId, rowIndex: startIndex + i + index, data: row }))
DataRows(startIndex, rows) ==
    [k \in 1..Len(rows) |-> [rowIndex |-> startIndex + k - 1, data |-> rows[k]]]

\* POST /api/datasets with rows: the dataset row, then its data rows
PostDataset(rows) == [exists |-> TRUE, rowCount |-> Len(rows), rows |-> DataRows(0, rows)]

\* POST /api/datasets with chunkedUpload: the dataset row with rowCount totalRows || 0
PostDatasetChunked(totalRows) == [exists |-> TRUE, rowCount |-> totalRows, rows |-> <<>>]

\* POST /api/datasets/chunk: the rows are created from startIndex on; the last
\* chunk stores the number of rows counted
PostChunk(db, rows, startIndex, isLastChunk) ==
    LET all == db.rows \o DataRows(startIndex, rows)
    IN  [db EXCEPT !.rows = all, !.rowCount = IF isLastChunk THEN Len(all) ELSE @]

\* DELETE /api/datasets/[id]: the dataset row and, by cascade, its data rows
DeleteDataset(db) == NoStoredDataset

\* POST /api/datasets/[id]/clean, route.ts: one transaction replaces the rows
\* by cleanedData and stores its length; chunkIndex, totalChunks and totalRows
\* are not read
PostCleanTransaction(db, body) ==
    [db EXCEPT !.rows = DataRows(0, body.cleanedData), !.rowCount = Len(body.cleanedData)]

\* POST /api/datasets/[id]/clean with chunks.  failed is the set of insert
\* batches (1-based) whose createMany throws: the route logs and goes on
PostCleanChunked(db, body, failed) ==
    LET isChunkedUpload == body.chunked
        isFirstChunk == body.chunked /\ body.chunkIndex = 0
        isLastChunk == body.chunked /\ body.chunkIndex = body.totalChunks - 1
        kept == IF isFirstChunk \/ ~isChunkedUpload THEN <<>> ELSE db.rows
        startRowIndex == IF isChunkedUpload THEN body.chunkIndex * MAX_ROWS_PER_REQUEST ELSE 0
        all == DataRows(startRowIndex, body.cleanedData)
        done == SortedSeq({ k \in 1..Len(all) : ((k - 1) \div BATCH_SIZE) + 1 \notin failed })
        finalRowCount == IF body.chunked THEN body.totalRows ELSE Len(body.cleanedData)
    IN  [db EXCEPT !.rows = kept \o [j \in 1..Len(done) |-> all[done[j]]],
                   !.rowCount = IF isLastChunk \/ ~isChunkedUpload THEN finalRowCount ELSE @]

\* POST /api/rows: the row gets the greatest rowIndex + 1, rowCount is incremented
PostRow(db, data) ==
    LET newRowIndex ==
            IF db.rows = <<>> THEN 0
            ELSE 1 + CHOOSE m \in { db.rows[k].rowIndex : k \in 1..Len(db.rows) } :
                         \A k \in 1..Len(db.rows) : db.rows[k].rowIndex <= m
    IN  [db EXCEPT !.rows = Append(@, [rowIndex |-> newRowIndex, data |-> data]),
                   !.rowCount = @ + 1]

\* DELETE /api/rows/[id]: the row is deleted, rowCount is decremented
DeleteRow(db, k) ==
    [db EXCEPT !.rows = SubSeq(@, 1, k - 1) \o SubSeq(@, k + 1, Len(@)), !.rowCount = @ - 1]

\* The data of the stored rows, by rowIndex as the page reads them (rows of one
\* rowIndex in the order of their creation)
StoredData(db) ==
    LET order == SortedSeq({ db.rows[k].rowIndex * (Len(db.rows) + 1) + k :
                               k \in 1..Len(db.rows) })
    IN  [j \in 1..Len(order) |-> db.rows[order[j] % (Len(db.rows) + 1)].data]

\* saveDataset(name, fileName, columns, rows), up to the answer of its first
\* request: one POST for rows.length <= CHUNK_SIZE, else the POST that creates
\* the dataset without rows
StartSave(rows, outcome) ==
    /\ saving.phase = "idle"
    /\ ~stored.exists
    /\ IF outcome # "ok"
       THEN /\ saving' = [phase |-> "returned", rows |-> rows, next |-> 0, result |-> "null",
                           error |-> outcome]
            /\ stored' = stored
       ELSE IF Len(rows) <= CHUNK_SIZE
       THEN /\ saving' = [phase |-> "returned", rows |-> rows, next |-> 0, result |-> "dataset",
                           error |-> ""]
            /\ stored' = PostDataset(rows)
       ELSE /\ saving' = [phase |-> "chunks", rows |-> rows, next |-> 0, result |-> "none",
                           error |-> ""]
            /\ stored' = PostDatasetChunked(Len(rows))
    /\ UNCHANGED <<applying, cleanerVars, kpiVars, filterVars, pageVars, parserVars>>

\* One turn of the chunk loop of saveDataset: POST /api/datasets/chunk; on
\* success: false the DELETE of the dataset and the throw
UploadChunk(outcome) ==
    /\ saving.phase = "chunks"
    /\ LET totalChunks == Ceil(Len(saving.rows), CHUNK_SIZE)
           start == saving.next * CHUNK_SIZE
           chunk == Slice(saving.rows, start, start + CHUNK_SIZE)
           isLastChunk == saving.next = totalChunks - 1
       IN  CASE outcome = "ok" /\ stored.exists ->
                    /\ stored' = PostChunk(stored, chunk, start, isLastChunk)
                    /\ saving' = IF isLastChunk THEN [saving EXCEPT !.phase = "final"]
                                 ELSE [saving EXCEPT !.next = @ + 1]
             [] outcome = "network" ->
                    /\ stored' = stored
                    /\ saving' = [saving EXCEPT !.phase = "returned", !.result = "null",
                                                !.error = "network"]
             [] OTHER ->
                    /\ stored' = DeleteDataset(stored)
                    /\ saving' = [saving EXCEPT !.phase = "returned", !.result = "null",
                                                !.error = "error"]
    /\ UNCHANGED <<applying, cleanerVars, kpiVars, filterVars, pageVars, parserVars>>

\* The end of saveDataset: GET /api/datasets/[id], then
\* return finalResult.dataset || createResult.dataset
FetchSaved(outcome) ==
    /\ saving.phase = "final"
    /\ saving' = [saving EXCEPT !.phase = "returned",
                                !.result = IF outcome = "network" THEN "null" ELSE "dataset",
                                !.error = IF outcome = "network" THEN "network" ELSE ""]
    /\ UNCHANGED <<stored, applying, cleanerVars, kpiVars, filterVars, pageVars, parserVars>>

\* handleCleanComplete(cleanedData, result) is called on the page of a stored
\* dataset; route is the handler that answers its requests
StartApply(cleanedData, route) ==
    /\ applying.phase = "idle"
    /\ stored.exists
    /\ applying' = [phase |-> "requests", cleanedData |-> cleanedData, next |-> 0,
                    result |-> "none", before |-> StoredData(stored), route |-> route]
    /\ UNCHANGED <<stored, saving, cleanerVars, kpiVars, filterVars, pageVars, parserVars>>

\* The body of the next request of handleCleanComplete: every row at once for
\* totalRows <= CHUNK_SIZE, else one chunk with chunkIndex, totalChunks, totalRows
CleanRequest ==
    LET totalRows == Len(applying.cleanedData)
        start == applying.next * MAX_ROWS_PER_REQUEST
    IN  IF totalRows <= MAX_ROWS_PER_REQUEST
        THEN [cleanedData |-> applying.cleanedData, chunked |-> FALSE, chunkIndex |-> 0,
              totalChunks |-> 1, totalRows |-> totalRows]
        ELSE [cleanedData |-> Slice(applying.cleanedData, start, start + MAX_ROWS_PER_REQUEST),
              chunked |-> TRUE, chunkIndex |-> applying.next,
              totalChunks |-> Ceil(totalRows, MAX_ROWS_PER_REQUEST), totalRows |-> totalRows]

\* One request of handleCleanComplete and its answer
SendClean(outcome, failed) ==
    /\ applying.phase = "requests"
    /\ applying.route = "transaction" => failed = {}
    /\ outcome # "ok" => failed = {}
    /\ LET body == CleanRequest
           last == ~body.chunked \/ body.chunkIndex = body.totalChunks - 1
       IN  IF outcome = "ok" /\ stored.exists
           THEN /\ stored' = IF applying.route = "transaction"
                             THEN PostCleanTransaction(stored, body)
                             ELSE PostCleanChunked(stored, body, failed)
                /\ applying' = IF last
                               THEN [applying EXCEPT !.phase = "done", !.result = "success"]
                               ELSE [applying EXCEPT !.next = @ + 1]
           ELSE /\ stored' = stored
                /\ applying' = [applying EXCEPT !.phase = "done", !.result = "failed"]
    /\ UNCHANGED <<saving, cleanerVars, kpiVars, filterVars, pageVars, parserVars>>

\* POST /api/rows from the row dialog (the model stops numbering rows at
\* CHUNK_SIZE + 1)
CreateRow(data) ==
    /\ stored.exists
    /\ \A k \in 1..Len(stored.rows) : stored.rows[k].rowIndex <= CHUNK_SIZE
    /\ stored' = PostRow(stored, data)
    /\ UNCHANGED <<saving, applying, cleanerVars, kpiVars, filterVars, pageVars, parserVars>>

\* DELETE /api/rows/[id] of a stored row
RemoveRow(k) ==
    /\ stored.exists
    /\ k \in 1..Len(stored.rows)
    /\ stored' = DeleteRow(stored, k)
    /\ UNCHANGED <<saving, applying, cleanerVars, kpiVars, filterVars, pageVars, parserVars>>

\* Nothing but the store moves
IdleClients == IdleParser /\ IdleCleaner /\ IdleKpi /\ IdleFilter /\ IdlePage

InitSave ==
    /\ IdleClients
    /\ IdleStore

NextSave ==
    \/ \E rows \in Payloads, outcome \in Outcomes : StartSave(rows, outcome)
    \/ \E outcome \in Outcomes : UploadChunk(outcome)
    \/ \E outcome \in Outcomes : FetchSaved(outcome)

\* saveDataset alone
SpecSave == InitSave /\ [][NextSave]_vars

\* A dataset is stored, uploaded in one request
InitApply ==
    /\ IdleClients
    /\ stored \in { PostDataset(rows) : rows \in SeqsUpTo(RowData, CHUNK_SIZE) }
    /\ saving = NotSaving
    /\ applying = NotApplying

NextApply ==
    \/ \E cleanedData \in Payloads, route \in CleanRoutes : StartApply(cleanedData, route)
    \/ \E outcome \in Outcomes, failed \in SUBSET (1..(MAX_ROWS_PER_REQUEST \div BATCH_SIZE)) :
           SendClean(outcome, failed)

\* handleCleanComplete alone
SpecApply == InitApply /\ [][NextApply]_vars

NextStore ==
    \/ \E rows \in PlainPayloads, outcome \in Outcomes : StartSave(rows, outcome)
    \/ \E outcome \in Outcomes : UploadChunk(outcome)
    \/ \E outcome \in Outcomes : FetchSaved(outcome)
    \/ \E cleanedData \in PlainPayloads, route \in CleanRoutes : StartApply(cleanedData, route)
    \/ \E outcome \in Outcomes, failed \in SUBSET (1..(MAX_ROWS_PER_REQUEST \div BATCH_SIZE)) :
           SendClean(outcome, failed)
    \/ \E data \in {"a"} : CreateRow(data)
    \/ \E k \in 1..(2 * CHUNK_SIZE + 2) : RemoveRow(k)

\* Every client of the store, request by request
SpecStore == InitSave /\ [][NextStore]_vars

(***************************************************************************)
(* Claims about the cleaner (checked under SpecCleaner).                   *)
(***************************************************************************)

\* C1: idempotence of cleaning.  Running cleanData with the same columns and
\* options on the cleanedRows of a first run reports removedRows = 0 and
\* modifiedCells = 0.
C1_CleaningIdempotent ==
    cleanerStep = "recleaned" =>
        /\ recleaned.result.removedRows = 0
        /\ recleaned.result.modifiedCells = 0

\* Only removeDuplicates is enabled.
OnlyRemoveDuplicates(o) ==
    /\ o.removeDuplicates
    /\ ~o.removeEmptyRows /\ ~o.handleMissingValues
    /\ ~o.trimWhitespace /\ ~o.normalizeCase

\* The rows of a table that the analyzer does not flag as duplicates, in order.
WithoutDuplicates(rows, duplicateRows) ==
    LET keep == SortedSeq({i \in 1..Len(rows) : (i - 1) \notin Range(duplicateRows)})
    IN  [k \in 1..Len(keep) |-> rows[keep[k]]]

CountOfType(changes, type) == Len(SelectSeq(changes, LAMBDA ch : ch.type = type))

TallyHolds(run) ==
    /\ run.result.removedRows = CountOfType(run.result.changes, "removed_row")
    /\ run.result.modifiedCells = CountOfType(run.result.changes, "modified_cell")
    /\ run.result.cleanedRowCount = run.result.originalRowCount - run.result.removedRows
    /\ run.result.cleanedRowCount = Len(run.cleanedRows)

\* C6: change-log tally.  After any cleanData run removedRows is the number of
\* 'removed_row' records of result.changes, modifiedCells the number of
\* 'modified_cell' records, and cleanedRowCount = originalRowCount - removedRows.
C6_ChangeLogTally ==
    /\ cleanerStep \in {"cleaned", "recleaned"} => TallyHolds(cleaned)
    /\ cleanerStep = "recleaned" => TallyHolds(recleaned)

C6_Witness ==
    /\ cleanerStep = "cleaned"
    /\ cleaned.result.removedRows > 0
    /\ cleaned.result.modifiedCells > 1

(***************************************************************************)
(* Claims about the KPI calculator (checked under SpecKpi).                *)
(***************************************************************************)

\* C7: KPI bounds.  calculateKpis returns totalOrders equal to the number of
\* rows, uniqueCustomers <= totalOrders, and averageOrderValue = 0 whenever
\* totalOrders = 0.
C7_KpiBounds ==
    kpiStep = "calculated" =>
        /\ kpiData.totalOrders = Num(Len(kpiRows))
        /\ kpiData.uniqueCustomers.t = "number"
        /\ kpiData.uniqueCustomers.n <= kpiData.totalOrders.n
        /\ kpiData.totalOrders = Num(0) => kpiData.averageOrderValue = Num(0)

C7_Witness ==
    /\ kpiStep = "calculated"
    /\ Len(kpiRows) = MaxRows
    /\ kpiData.uniqueCustomers = Num(MaxRows)
    /\ kpiData.averageOrderValue # Num(0)

\* The sum of the numeric cells of a column
NumericSum(data, columnName) ==
    LET cells == SelectSeq([i \in 1..Len(data) |-> Cell(data[i], columnName)],
                           LAMBDA v : v.t = "number")
    IN  SumSeq([i \in 1..Len(cells) |-> cells[i].n])

\* C8: profit KPIs.  When a costColumn is configured, totalCost is the sum of the
\* numeric cost cells, totalProfit = totalSales - totalCost and profitMargin =
\* totalProfit / totalSales * 100 (0 when totalSales is 0); the three fields are
\* defined numbers in every returned KpiData.
C8_ProfitKpis ==
    kpiStep = "calculated" =>
        /\ IsNumberType(kpiData.totalCost)
        /\ IsNumberType(kpiData.totalProfit)
        /\ IsNumberType(kpiData.profitMargin)
        /\ ~Falsy(kpiConfig.costColumn) =>
              /\ kpiData.totalCost = Num(NumericSum(kpiRows, kpiConfig.costColumn.s))
              /\ kpiData.totalProfit = Num(kpiData.totalSales.n - kpiData.totalCost.n)
              /\ IF kpiData.totalSales = Num(0) THEN kpiData.profitMargin = Num(0)
                 ELSE kpiData.profitMargin.n * kpiData.totalSales.n
                          = kpiData.totalProfit.n * 100

\* The column named by a detected role has one of the given types.
NamesTyped(choice, types) ==
    choice # Null =>
        \E k \in 1..Len(kpiColumns) :
            Str(kpiColumns[k].name) = choice /\ kpiColumns[k].type \in types

\* The columns a hint matches, of one of the given types
HintMatches(hint, types) ==
    {k \in 1..Len(kpiColumns) :
        /\ Includes(ToLowerCase(kpiColumns[k].name), hint)
        /\ kpiColumns[k].type \in types}

\* When some hint of the role matches a column of the right type, the role gets
\* the first column matched by the earliest matching hint.
EarliestHintWins(choice, hints, types) ==
    \A h \in 1..Len(hints) :
        (/\ HintMatches(hints[h], types) # {}
         /\ \A g \in 1..(h - 1) : HintMatches(hints[g], types) = {}) =>
            \E k \in HintMatches(hints[h], types) :
                /\ choice = Str(kpiColumns[k].name)
                /\ \A j \in HintMatches(hints[h], types) : k <= j

AllTypes == {"text", "number", "date", "category"}

\* C9: KPI column auto-detection.  detectKpiColumns returns a non-null
\* salesColumn whenever some column is number-typed; a returned salesColumn or
\* quantityColumn names a number-typed column, a returned dateColumn a date-typed
\* column; and for each role the column matched by the earliest hint is chosen.
C9_KpiColumnDetection ==
    kpiStep = "detected" =>
        /\ ColumnsOfType(kpiColumns, {"number"}) # {} => kpiConfig.salesColumn # Null
        /\ NamesTyped(kpiConfig.salesColumn, {"number"})
        /\ NamesTyped(kpiConfig.quantityColumn, {"number"})
        /\ NamesTyped(kpiConfig.dateColumn, {"date"})
        /\ EarliestHintWins(kpiConfig.salesColumn, KPI_COLUMN_HINTS.sales, {"number"})
        /\ EarliestHintWins(kpiConfig.quantityColumn, KPI_COLUMN_HINTS.quantity, {"number"})
        /\ EarliestHintWins(kpiConfig.customerColumn, KPI_COLUMN_HINTS.customer, AllTypes)
        /\ EarliestHintWins(kpiConfig.dateColumn, KPI_COLUMN_HINTS.date, {"date"})

\* The part of C9 that the code keeps: the same statement for the column lists
\* in which every number-typed column has a non-empty name.
C9_DetectionOfNamedColumns ==
    (\A k \in 1..Len(kpiColumns) : kpiColumns[k].name # <<>>) => C9_KpiColumnDetection

(***************************************************************************)
(* Claims about the dataset dashboard page (checked under Spec).           *)
(***************************************************************************)

\* C2: data consistency on the dataset dashboard.  In every reachable state the
\* rows from which the KPI cards and the charts are computed
\* (deferredFilteredData) are exactly the filtered rows shown in the data table
\* (filteredData).
C2_DashboardConsistency == deferredFilteredData = filteredData

(***************************************************************************)
(* Claims about the filter evaluators (checked under SpecFilter).          *)
(***************************************************************************)

\* The rows of the table that satisfy every active filter, by position
RECURSIVE SatisfyingRows(_, _)
SatisfyingRows(rows, active) ==
    IF rows = <<>> THEN <<>>
    ELSE LET rest == SatisfyingRows(Tail(rows), active)
         IN  IF \A k \in 1..Len(active) : matchesFilter(Head(rows), active[k])
             THEN <<Head(rows)>> \o rest
             ELSE rest

\* C3: the filter evaluator returns exactly the rows that satisfy every filter
\* whose isActive is true, in their original order; a filter with isActive =
\* false never excludes a row, and with no active filter the result is the
\* whole input unchanged.
C3_FilterEvaluator ==
    LET active == SelectSeq(evalFilters, LAMBDA f : f.isActive = TRUE)
    IN  /\ contextFiltered = SatisfyingRows(evalRows, active)
        /\ contextFiltered = applyFilters(evalRows, active)
        /\ active = <<>> => contextFiltered = evalRows

C3_Witness ==
    /\ Len(evalFilters) = 2
    /\ Len(evalRows) = 2
    /\ \E k \in 1..2 : ~evalFilters[k].isActive /\ ~matchesFilter(
             evalRows[1], [evalFilters[k] EXCEPT !.isActive = TRUE])
    /\ \E k \in 1..2 : evalFilters[k].isActive
    /\ contextFiltered = <<evalRows[1]>>

\* C4: filter monotonicity.  Adding one more active filter to the filter list
\* never increases the number of rows of the filtered result, in the
\* FilterProvider and on the two dashboard pages.
C4_FilterMonotone ==
    [][(\E filter \in FilterPool :
            /\ filter.isActive
            /\ evalFilters' = Append(evalFilters, [filter EXCEPT !.id = Len(evalFilters) + 1]))
        => /\ Len(contextFiltered') <= Len(contextFiltered)
           /\ Len(dashboardFiltered') <= Len(dashboardFiltered)
           /\ Len(datasetFiltered') <= Len(datasetFiltered)]_vars

C4_Witness ==
    /\ Len(evalFilters) = 2
    /\ evalFilters[1].isActive /\ evalFilters[2].isActive
    /\ evalFilters[2].columnType = "category" /\ evalFilters[2].values = <<>>
    /\ Len(applyFilters(evalRows, <<evalFilters[1]>>)) = 2
    /\ contextFiltered = <<>>
    /\ Len(datasetFiltered) = 2

\* A cell that is missing (null, undefined or empty) or not numeric
MissingOrNonNumeric(value) ==
    \/ value.t \in {"null", "undefined", "nan"}
    \/ value.t = "string" /\ ~IsDigits(Trim(value.s))
                          /\ ~(Trim(value.s) # <<>> /\ Head(Trim(value.s)) = "-"
                               /\ IsDigits(Tail(Trim(value.s))))

NumberFilterRejects(filtered) ==
    \A k \in 1..Len(evalFilters) :
        LET filter == evalFilters[k]
        IN  (/\ filter.isActive
             /\ filter.columnType = "number"
             /\ filter.operator \in {"equals", "greaterThan", "lessThan", "between"})
            => \A i \in 1..Len(filtered) :
                  ~MissingOrNonNumeric(Cell(filtered[i], filter.columnName))

\* C10: a number filter never passes a row whose cell in the filter's column is
\* missing (null, undefined or empty) or non-numeric, for every operator and
\* filter value, in every filter evaluator.
C10_NumberFilterRejectsMissing ==
    /\ NumberFilterRejects(contextFiltered)
    /\ NumberFilterRejects(dashboardFiltered)
    /\ NumberFilterRejects(datasetFiltered)

\* The part of C10 that holds: a cell that coerces to NaN never passes
C10_NaNCellsRejected ==
    \A k \in 1..Len(evalFilters) :
        LET filter == evalFilters[k]
        IN  (/\ filter.isActive
             /\ filter.columnType = "number"
             /\ filter.operator \in {"equals", "greaterThan", "lessThan", "between"})
            => \A i \in 1..Len(evalRows) :
                  ToNumber(Cell(evalRows[i], filter.columnName)).t = "nan"
                  => /\ evalRows[i] \notin Range(contextFiltered)
                     /\ evalRows[i] \notin Range(dashboardFiltered)
                     /\ evalRows[i] \notin Range(datasetFiltered)

\* The list holds exactly one filter, active, of the given type
OnlyFilter(columnType) ==
    /\ Len(evalFilters) = 1
    /\ evalFilters[1].isActive
    /\ evalFilters[1].columnType = columnType

\* a <= x <= b, or x = a when valueTo is absent
WithinBetween(filter, x) ==
    IF filter.valueTo.t \in {"null", "undefined"} THEN x = filter.value.n
    ELSE filter.value.n <= x /\ x <= filter.valueTo.n

BetweenDecides(filtered) ==
    (OnlyFilter("number") /\ evalFilters[1].operator = "between") =>
        \A i \in 1..Len(evalRows) :
            LET cell == Cell(evalRows[i], evalFilters[1].columnName)
            IN  cell.t = "number" =>
                   (evalRows[i] \in Range(filtered) <=> WithinBetween(evalFilters[1], cell.n))

\* C11: a 'between' number filter with value = a and valueTo = b passes a numeric
\* cell x iff a <= x <= b, for every b including 0; without valueTo it passes x
\* iff x = a.  Stated for each of the three evaluators.
C11_BetweenInclusive ==
    /\ BetweenDecides(contextFiltered)
    /\ BetweenDecides(dashboardFiltered)
    /\ BetweenDecides(datasetFiltered)

\* The part of C11 that holds: the FilterProvider and the CSV dashboard page
C11_BetweenInContext ==
    /\ BetweenDecides(contextFiltered)
    /\ BetweenDecides(dashboardFiltered)

\* The filters other than the active category filters with no value
WithoutEmptyCategories(list) ==
    SelectSeq(list, LAMBDA f :
        ~(f.isActive /\ f.columnType = "category" /\ f.values = <<>>))

\* C12: an active category filter whose values list is empty is a pass-through
\* in every evaluator: the FilterProvider and the two dashboard pages return the
\* rows they return without it.
C12_EmptyCategoryPassThrough ==
    /\ contextFiltered = applyFilters(evalRows, WithoutEmptyCategories(evalFilters))
    /\ dashboardFiltered = DashboardFilteredData(evalRows, WithoutEmptyCategories(evalFilters))
    /\ datasetFiltered = DatasetFilteredData(evalRows, WithoutEmptyCategories(evalFilters))

\* The part of C12 that holds: the two dashboard pages
C12_PagesPassThrough ==
    /\ dashboardFiltered = DashboardFilteredData(evalRows, WithoutEmptyCategories(evalFilters))
    /\ datasetFiltered = DatasetFilteredData(evalRows, WithoutEmptyCategories(evalFilters))

\* The cell is text that new Date parses
ParseableDate(cell) == cell.t = "string" /\ ParseDate(cell.s).t = "date"

\* (from is null or d >= from) and (to is null or d <= to)
WithinDates(filter, d) ==
    /\ filter.from = Null \/ d.n >= filter.from.n
    /\ filter.to = Null \/ d.n <= filter.to.n

DateDecides(filtered) ==
    OnlyFilter("date") =>
        \A i \in 1..Len(evalRows) :
            LET cell == Cell(evalRows[i], evalFilters[1].columnName)
            IN  evalRows[i] \in Range(filtered)
                  <=> (ParseableDate(cell) /\ WithinDates(evalFilters[1], ParseDate(cell.s)))

\* C13: an active date filter never passes a row whose cell is null or not
\* parseable as a date, whether or not from/to are set; a parseable cell d passes
\* iff (from is null or d >= from) and (to is null or d <= to).  Stated for each
\* of the three evaluators.
C13_DateFilter ==
    /\ DateDecides(contextFiltered)
    /\ DateDecides(dashboardFiltered)
    /\ DateDecides(datasetFiltered)

\* The part of C13 that holds: the FilterProvider and the CSV dashboard page
C13_DateFilterInContext ==
    /\ DateDecides(contextFiltered)
    /\ DateDecides(dashboardFiltered)

(***************************************************************************)
(* Claims about column typing (checked under SpecColumn).                  *)
(***************************************************************************)

NonEmptyCount == Cardinality({i \in 1..Len(colValues) : NonEmpty(colValues[i])})

\* The indices of the first hundred non-empty values
FirstNonEmpty ==
    {i \in 1..Len(colValues) :
        /\ NonEmpty(colValues[i])
        /\ Cardinality({j \in 1..i : NonEmpty(colValues[j])}) <= 100}

SampledDistinct == Cardinality({colValues[i] : i \in FirstNonEmpty})

AllDates == \A i \in FirstNonEmpty : IsDateValue(colValues[i])

AllNumbers == \A i \in FirstNonEmpty : IsNumberValue(colValues[i])

\* C14: a column that is not name-like and fails the date and number tests is a
\* category iff the distinct values among its first 100 non-empty values are at
\* most 30 and its non-empty values are strictly more than twice that many;
\* otherwise it is text (so text when non-empty = 2 x distinct).
C14_CategoryRule ==
    (/\ colInfo # NoColumnInfo
     /\ ~isNameLikeColumn(colName)
     /\ NonEmptyCount > 0 /\ ~AllDates /\ ~AllNumbers)
    => /\ colInfo.type \in {"category", "text"}
       /\ colInfo.type = "category"
            <=> (SampledDistinct <= 30 /\ NonEmptyCount > 2 * SampledDistinct)

\* Region with 6 values and 3 distinct: text at the boundary
C14_Witness ==
    /\ colName = <<"R","e","g","i","o","n">>
    /\ NonEmptyCount = 6 /\ SampledDistinct = 3
    /\ colInfo.type = "text"

\* C15: a column whose name contains a name-like keyword (in any letter case)
\* and that has at least 2 non-empty values, not all dates and not all numbers,
\* is a category whatever its number of distinct values, and its uniqueValues
\* lists all its distinct values.
C15_NameLikeOverride ==
    (/\ colInfo # NoColumnInfo
     /\ isNameLikeColumn(colName)
     /\ NonEmptyCount >= 2 /\ ~AllDates /\ ~AllNumbers)
    => /\ colInfo.type = "category"
       /\ Range(colInfo.uniqueValues)
            = {StringOf(colValues[i]) : i \in {j \in 1..Len(colValues) : NonEmpty(colValues[j])}}
       /\ Len(colInfo.uniqueValues) = Cardinality(Range(colInfo.uniqueValues))

\* 'Customer Name' with 50 values, all distinct
C15_Witness ==
    /\ colName = <<"C","u","s","t","o","m","e","r"," ","N","a","m","e">>
    /\ NonEmptyCount = 50
    /\ colInfo.type = "category"
    /\ Len(colInfo.uniqueValues) = 50

(***************************************************************************)
(* Further claims about the cleaner (checked under SpecCleaner).           *)
(***************************************************************************)

\* The rows left by the steps that come before the missing-value step
Survivors ==
    LET st0 == [rows |-> inputRows, changes |-> <<>>, modifiedCells |-> 0]
        st1 == IF options.removeDuplicates THEN RemoveDuplicatesStep(st0) ELSE st0
    IN  IF options.removeEmptyRows THEN RemoveEmptyRowsStep(st1, CleanColumns).rows
        ELSE st1.rows

\* The cells (0-based row, column) the analyzer counts as missing in the scope
\* columns of the surviving rows
MissingInScope ==
    LET found == analyzeDataForCleaning(Survivors, CleanColumns).missingValuesByColumn
        scope == ColumnsToProcess(CleanColumns, options)
    IN  UNION { { <<found[c][k], c>> : k \in 1..Len(found[c]) } :
                  c \in { n \in DOMAIN found : \E j \in 1..Len(scope) : scope[j].name = n } }

\* The change records of the missing-value step
FillRecords ==
    SelectSeq(cleaned.result.changes, LAMBDA ch :
        ch.type = "modified_cell" /\ ch.reason = FillReason(options.missingValueStrategy))

Filling ==
    /\ cleanerStep \in {"cleaned", "recleaned"}
    /\ options.handleMissingValues
    /\ options.missingValueStrategy # "remove_row"

\* C16: analyzer and cleaner share the missing-value vocabulary.  Under any fill
\* strategy cleanData overwrites exactly the cells the analyzer counts as missing
\* (null, empty, or a placeholder like ' N/A ') in the scope columns of the
\* surviving rows, each once, and under fill_zero each of them becomes the
\* number 0.
C16_MissingVocabulary ==
    Filling =>
        /\ {<<FillRecords[k].rowIndex, FillRecords[k].column>> : k \in 1..Len(FillRecords)}
             = MissingInScope
        /\ Len(FillRecords) = Cardinality(MissingInScope)
        /\ \A k \in 1..Len(FillRecords) :
              FillRecords[k].oldValue
                 = Survivors[FillRecords[k].rowIndex + 1][FillRecords[k].column]
        /\ options.missingValueStrategy = "fill_zero" =>
              \A cell \in MissingInScope :
                  cleaned.cleanedRows[cell[1] + 1][cell[2]] = Num(0)

C16_Witness ==
    /\ cleanerStep = "cleaned"
    /\ options.handleMissingValues /\ options.missingValueStrategy = "fill_zero"
    /\ Len(inputRows) = 2 /\ Len(cleaned.cleanedRows) = 2
    /\ inputRows[1][NameColumn] = Str(<<" ","N","/","A"," ">>)
    /\ cleaned.cleanedRows[1][NameColumn] = Num(0)
    /\ inputRows[2][NameColumn] = Str(<<" ","A">>)
    /\ cleaned.cleanedRows[2][NameColumn] # Num(0)

\* cleanData has run on the table
Cleaned == cleanerStep \in {"cleaned", "recleaned"}

\* The step of cleanData that writes a change record with the reason
StepOf(change) ==
    CASE change.reason = "Duplicate row removed" -> 1
      [] change.reason = "Empty row removed" -> 2
      [] change.reason = "Row with missing values removed" -> 3
      [] change.reason \in {FillReason(strategy) : strategy \in MissingValueStrategies} -> 3
      [] change.reason = "Whitespace trimmed" -> 4
      [] OTHER -> 5

\* The option that enables a step
StepEnabled(step) ==
    CASE step = 1 -> options.removeDuplicates
      [] step = 2 -> options.removeEmptyRows
      [] step = 3 -> options.handleMissingValues
      [] step = 4 -> options.trimWhitespace
      [] OTHER -> options.normalizeCase

\* The rows left by the steps that remove rows
RowsAfterRemovals ==
    IF options.handleMissingValues /\ options.missingValueStrategy = "remove_row"
    THEN RemoveMissingRowsStep([rows |-> Survivors, changes |-> <<>>, modifiedCells |-> 0],
                               ColumnsToProcess(CleanColumns, options)).rows
    ELSE Survivors

\* The records before position last that rewrite the cell
CellRecords(rowIndex, column, last) ==
    { i \in 1..last :
        /\ cleaned.result.changes[i].type = "modified_cell"
        /\ cleaned.result.changes[i].rowIndex = rowIndex
        /\ cleaned.result.changes[i].column = column }

\* The value of the cell after the first last records
CellValueAfter(rowIndex, column, last) ==
    LET records == CellRecords(rowIndex, column, last)
    IN  IF records = {} THEN RowsAfterRemovals[rowIndex + 1][column]
        ELSE cleaned.result.changes[CHOOSE i \in records : \A j \in records : j <= i].newValue

\* C20: cleanData applies the enabled steps in the order duplicates, empty rows,
\* missing values, whitespace, case.  In result.changes the records of an
\* earlier step precede those of a later one, only enabled steps leave records,
\* every rewrite starts from the value the earlier records left in its cell, and
\* the cleaned rows hold the values the last rewrites left.
C20_StepOrder ==
    Cleaned =>
        LET changes == cleaned.result.changes
        IN  /\ \A i, j \in 1..Len(changes) :
                   i < j => StepOf(changes[i]) <= StepOf(changes[j])
            /\ \A i \in 1..Len(changes) : StepEnabled(StepOf(changes[i]))
            /\ Len(cleaned.cleanedRows) = Len(RowsAfterRemovals)
            /\ \A i \in 1..Len(changes) :
                   changes[i].type = "modified_cell" =>
                       changes[i].oldValue
                           = CellValueAfter(changes[i].rowIndex, changes[i].column, i - 1)
            /\ \A r \in 1..Len(cleaned.cleanedRows) :
                   \A column \in DOMAIN cleaned.cleanedRows[r] :
                       cleaned.cleanedRows[r][column]
                           = CellValueAfter(r - 1, column, Len(changes))

\* A duplicate row is removed, then the cell ' A' of the row left is trimmed and
\* then lower-cased: three steps leave their records in order
C20_Witness ==
    /\ Cleaned
    /\ Len(inputRows) = 2
    /\ Len(cleaned.cleanedRows) = 1
    /\ Len(cleaned.result.changes) = 3
    /\ cleaned.result.changes[1].reason = "Duplicate row removed"
    /\ cleaned.result.changes[2].reason = "Whitespace trimmed"
    /\ cleaned.result.changes[2].oldValue = Str(<<" ", "A">>)
    /\ cleaned.result.changes[3].reason = "Case normalized to lowercase"
    /\ cleaned.result.changes[3].oldValue = Str(<<"A">>)
    /\ cleaned.cleanedRows[1][NameColumn] = Str(<<"a">>)

(***************************************************************************)
(* Claims about parsing and export (checked under SpecCsv).                *)
(***************************************************************************)
\* A CsvParseResult that reports a failure: tagged with a CsvErrorCode and
\* without any table
TaggedFailure(result) ==
    /\ result.errorCode \in CsvErrorCodes
    /\ result.columns = <<>>
    /\ result.rows = <<>>

\* parseCsv has run on the file
Parsed == csvResult # NoResult

\* C17: every failing outcome of parseCsv is a resolved result with success =
\* false, one of the five error codes and no data, never an exception, and a
\* file above 10 MB gets FILE_TOO_LARGE whatever its name and content.
C17_FailuresAreValues ==
    Parsed =>
        /\ csvResult.thrown = ""
        /\ csvResult.settled
        /\ ~csvResult.success => TaggedFailure(csvResult)
        /\ csvFile.size > FileSizeLimit =>
               ~csvResult.success /\ csvResult.errorCode = "FILE_TOO_LARGE"

\* C17, the part that holds: every result parseCsv resolves with success =
\* false is tagged and empty, the size is tested first, and a workbook never
\* makes the parser throw.
C17_ResolvedFailuresTagged ==
    Parsed =>
        /\ csvResult.settled /\ ~csvResult.success => TaggedFailure(csvResult)
        /\ csvFile.size > FileSizeLimit =>
               csvResult.settled /\ ~csvResult.success
                   /\ csvResult.errorCode = "FILE_TOO_LARGE"
        /\ csvResult.thrown # "" => EndsWith(ToLowerCase(csvFile.name), DotCsv)

\* No string cell of the rows holds a comma or a quote character
PlainCells(rows) ==
    \A i \in 1..Len(rows) : \A name \in DOMAIN rows[i] :
        rows[i][name].t = "string" =>
            \A k \in 1..Len(rows[i][name].s) : rows[i][name].s[k] \notin {",", "\""}

\* The rows with every Date taken through its YYYY-MM-DD string
DatesNormalized(rows) ==
    [ i \in 1..Len(rows) |->
        [ name \in DOMAIN rows[i] |->
            IF rows[i][name].t = "date" THEN ToDate(Str(ToISODate(rows[i][name])))
            ELSE rows[i][name] ] ]

\* C18: for rows whose string cells hold no comma and no quote, convertToCsv
\* yields a text, and parsing that text yields the same rows, up to the Dates
\* being normalized through their YYYY-MM-DD string.
C18_RoundTrip ==
    (csvExport.done /\ csvExport.rows # <<>> /\ PlainCells(csvExport.rows)) =>
        /\ csvExport.thrown = ""
        /\ csvReimport # NoResult =>
               /\ csvReimport.success
               /\ csvReimport.rows = DatesNormalized(csvExport.rows)

\* C18, the part that holds: when the whole table of a parsed file is exported
\* and none of its Dates is invalid, the text parses back to the same rows.
C18_WholeTableRoundTrip ==
    (/\ csvExport.done
     /\ csvExport.rows # <<>>
     /\ csvExport.rows = csvResult.rows
     /\ ~ExportThrows(csvExport.rows, csvResult.columns)) =>
        /\ csvExport.thrown = ""
        /\ csvReimport # NoResult =>
               /\ csvReimport.success
               /\ csvReimport.rows = DatesNormalized(csvExport.rows)

(***************************************************************************)
(* Claims about the chart aggregation (checked under SpecChart).           *)
(***************************************************************************)
\* aggregateByColumn has run on the rows
Charted == chartData # NoChart

\* The position of the first row with the group key
FirstRowOf(groupKey) ==
    CHOOSE i \in 1..Len(chartRows) :
        /\ GroupKey(chartRows[i], chartData.groupByColumn) = groupKey
        /\ \A j \in 1..(i - 1) : GroupKey(chartRows[j], chartData.groupByColumn) # groupKey

\* C19: aggregateByColumn returns one bucket per distinct group key, in
\* non-increasing order of value for sum, count and average, and buckets of
\* equal value are in the order in which their keys first appear in the rows.
C19_BucketsDescendingStable ==
    Charted =>
        LET buckets == chartData.buckets
            keys == {GroupKey(chartRows[i], chartData.groupByColumn) : i \in 1..Len(chartRows)}
        IN  /\ {buckets[k].name : k \in 1..Len(buckets)} = keys
            /\ Len(buckets) = Cardinality(keys)
            /\ \A i, j \in 1..Len(buckets) :
                   i < j =>
                       /\ buckets[i].value >= buckets[j].value
                       /\ buckets[i].value = buckets[j].value =>
                              FirstRowOf(buckets[i].name) < FirstRowOf(buckets[j].name)

\* Two rows with different keys and equal sums: the buckets tie and stay in the
\* order of the rows
C19_Witness ==
    /\ Charted
    /\ chartData.aggregation = "sum"
    /\ chartData.groupByColumn = NameColumn
    /\ chartData.valueColumn = AmountColumn
    /\ Len(chartRows) = 2
    /\ Len(chartData.buckets) = 2
    /\ chartData.buckets[1].value = 12
    /\ chartData.buckets[2].value = 12
    /\ chartData.buckets[1].name = GroupKey(chartRows[1], NameColumn)
    /\ chartData.buckets[2].name = <<"b">>

(***************************************************************************)
(* Claims about the fill strategies (checked under SpecFill).              *)
(***************************************************************************)
\* The type of a column of the table
TypeOfColumn(column) ==
    CleanColumns[CHOOSE k \in 1..Len(CleanColumns) : CleanColumns[k].name = column].type

\* The fill value of the column computed from the rows given
FillValueFrom(rows, column) ==
    calculateFillValue(rows, column, TypeOfColumn(column), options.missingValueStrategy,
                       options.customFillValue)

\* C21: in fill modes the value written to a column is the one computed from the
\* rows cleanData was called with, rows removed by the duplicate and empty-row
\* steps included, and that one value is written to every cell of the column
\* that is missing in the rows those steps left.
C21_FillValueFromOriginal ==
    Filling =>
        /\ \A k \in 1..Len(FillRecords) :
              FillRecords[k].newValue = FillValueFrom(inputRows, FillRecords[k].column)
        /\ \A r \in 1..Len(Survivors) : \A column \in DOMAIN Survivors[r] :
              isMissingValue(Survivors[r][column]) =>
                  /\ cleaned.cleanedRows[r][column] = FillValueFrom(inputRows, column)
                  /\ \E k \in 1..Len(FillRecords) :
                        /\ FillRecords[k].rowIndex = r - 1
                        /\ FillRecords[k].column = column

\* An empty row that is removed still counts for the fill value: the name of
\* the last row is filled with the value most frequent in the three input rows,
\* which is not the one most frequent in the two rows left
C21_Witness ==
    /\ Filling
    /\ options.missingValueStrategy = "fill_mode"
    /\ options.removeEmptyRows
    /\ Len(inputRows) = 3
    /\ Len(Survivors) = 2
    /\ Len(FillRecords) = 1
    /\ FillRecords[1].column = NameColumn
    /\ FillRecords[1].newValue = FillValueFrom(inputRows, NameColumn)
    /\ FillRecords[1].newValue # FillValueFrom(Survivors, NameColumn)

\* The values of the column in the input rows, in row order
InputValues(column) == [i \in 1..Len(inputRows) |-> inputRows[i][column]]

\* How often the value occurs in the sequence
Occurrences(values, value) == Cardinality({i \in 1..Len(values) : values[i] = value})

\* value is the most frequent of the values, and the first seen of the most
\* frequent ones; '' when there are none
IsModeOf(values, value) ==
    IF values = <<>> THEN value = Str(<<>>)
    ELSE \E i \in 1..Len(values) :
            /\ values[i] = value
            /\ \A j \in 1..Len(values) :
                  /\ Occurrences(values, values[j]) <= Occurrences(values, value)
                  /\ Occurrences(values, values[j]) = Occurrences(values, value) =>
                        \E h \in 1..j : values[h] = value

FillingMode == Filling /\ options.missingValueStrategy = "fill_mode"

\* C22: under fill_mode the value written to a column is the most frequent of
\* its values in the input rows that the vocabulary does not count as missing,
\* the first seen among equally frequent ones; a placeholder is never written.
C22_ModeIsNonMissing ==
    FillingMode =>
        \A k \in 1..Len(FillRecords) :
            IsModeOf(SelectSeq(InputValues(FillRecords[k].column),
                               LAMBDA v : ~isMissingValue(v)),
                     FillRecords[k].newValue)

\* C22, the part that holds: the value written is the most frequent of the
\* values other than null and '', the first seen among equally frequent ones.
C22_ModeOfPresentValues ==
    FillingMode =>
        \A k \in 1..Len(FillRecords) :
            IsModeOf(SelectSeq(InputValues(FillRecords[k].column), NonEmpty),
                     FillRecords[k].newValue)

(***************************************************************************)
(* Claims about the KPIs of a parsed file (checked under SpecUpload).      *)
(***************************************************************************)
\* The KPIs of the parsed file are on screen
KpisShown == csvResult.success /\ kpiStep = "calculated"

\* The sum of the cells of the column that are numbers
ParseableSum(rows, column) ==
    SumSeq([k \in 1..Cardinality({i \in 1..Len(rows) : Cell(rows[i], column).t = "number"}) |->
               Cell(rows[SortedSeq({i \in 1..Len(rows) :
                                       Cell(rows[i], column).t = "number"})[k]], column).n])

\* The KPI is a finite number, the sum of the parseable cells of its column
SumsParseable(kpi, column) ==
    /\ kpi.t = "number"
    /\ kpi.n = IF Falsy(column) THEN 0 ELSE ParseableSum(csvResult.rows, column.s)

\* C23: a cell of a number column that does not parse is stored as null or
\* contributes 0, so the totalSales and totalQuantity of every parsed table are
\* finite and equal the sum of the parseable cells of their columns.
C23_UnparseableCellsHarmless ==
    KpisShown =>
        /\ \A i \in 1..Len(csvResult.rows) : \A column \in DOMAIN csvResult.rows[i] :
              csvResult.rows[i][column].t # "nan"
        /\ SumsParseable(kpiData.totalSales, kpiConfig.salesColumn)
        /\ SumsParseable(kpiData.totalQuantity, kpiConfig.quantityColumn)

\* C23, the part that holds: when every sampled and later cell of the number
\* column parses, or the column is not typed number, the totals are the sums.
C23_ParseableColumnsSummed ==
    (KpisShown /\ \A i \in 1..Len(csvResult.rows) : \A column \in DOMAIN csvResult.rows[i] :
                      csvResult.rows[i][column].t # "nan") =>
        /\ SumsParseable(kpiData.totalSales, kpiConfig.salesColumn)
        /\ SumsParseable(kpiData.totalQuantity, kpiConfig.quantityColumn)

(***************************************************************************)
(* Claims about the row indices of the change log (checked under           *)
(* SpecCleaner).                                                           *)
(***************************************************************************)

\* The positions in inputRows of the rows of the working array when a step of
\* cleanData starts
PositionsBefore(step) ==
    LET scope == ColumnsToProcess(CleanColumns, options)
        st0 == [rows |-> inputRows, changes |-> <<>>, modifiedCells |-> 0]
        st1 == IF options.removeDuplicates THEN RemoveDuplicatesStep(st0) ELSE st0
        st2 == IF options.removeEmptyRows THEN RemoveEmptyRowsStep(st1, CleanColumns) ELSE st1
        p0 == [k \in 1..Len(inputRows) |-> k]
        p1 == KeepPositions(p0, st0, st1)
    IN  CASE step = 1 -> p0
          [] step = 2 -> p1
          [] step = 3 -> KeepPositions(p1, st1, st2)
          [] OTHER -> KeptPositions(inputRows, CleanColumns, options)

\* The 0-based index in inputRows of the row a change record is about
OriginalIndex(change) == PositionsBefore(StepOf(change))[change.rowIndex + 1] - 1

\* An earlier step of the run has removed a row before the record was written
AfterRemoval(i) ==
    \E j \in 1..(i - 1) :
        /\ cleaned.result.changes[j].type = "removed_row"
        /\ StepOf(cleaned.result.changes[j]) < StepOf(cleaned.result.changes[i])

\* C27: every record of result.changes carries as rowIndex the index in the
\* original input rows of the row it removed or rewrote, also when an earlier
\* step of the run has removed rows.
C27_OriginalRowIndex ==
    Cleaned =>
        \A i \in 1..Len(cleaned.result.changes) :
            cleaned.result.changes[i].rowIndex = OriginalIndex(cleaned.result.changes[i])

\* C27, the part that holds: a record written before any earlier step has
\* removed a row carries the index in the original input rows.
C27_IndexBeforeRemovals ==
    Cleaned =>
        \A i \in 1..Len(cleaned.result.changes) :
            ~AfterRemoval(i) =>
                cleaned.result.changes[i].rowIndex
                    = OriginalIndex(cleaned.result.changes[i])

\* The number of the steps that remove rows the options enable
RemovalStepsEnabled ==
    (IF options.removeDuplicates THEN 1 ELSE 0)
        + (IF options.removeEmptyRows THEN 1 ELSE 0)
        + (IF options.handleMissingValues /\ options.missingValueStrategy = "remove_row"
           THEN 1 ELSE 0)

\* C28: the preview agrees with the run: estimatedRemovals of
\* generateCleaningPreview equals removedRows of cleanData for the same rows,
\* columns and options, so the 'Final Row Count' of the preview is
\* cleanedRowCount.
C28_PreviewAgreesWithRun ==
    Cleaned =>
        /\ preview.estimatedRemovals = cleaned.result.removedRows
        /\ Len(inputRows) - preview.estimatedRemovals = cleaned.result.cleanedRowCount

\* C28, the part that holds: the preview never estimates fewer removals than
\* the run makes, and it agrees with the run when at most one removing step is
\* enabled and every column is in the scope.
C28_PreviewBoundsRun ==
    Cleaned =>
        /\ cleaned.result.removedRows <= preview.estimatedRemovals
        /\ (RemovalStepsEnabled <= 1 /\ options.columnsToClean = <<>>) =>
               preview.estimatedRemovals = cleaned.result.removedRows

(***************************************************************************)
(* Claims about the cleaner dialog (checked under SpecDialog).             *)
(***************************************************************************)

\* C24: analyzeDataForCleaning and cleanData leave the rows they are given as
\* they were (same length, same order, same cells), and the run made on Save
\* returns the cleaned rows and the result of the run made on Apply.
C24_InputsUnchanged ==
    [][ /\ inputRows' = inputRows
        /\ cleanerStep' = "saved" =>
              /\ recleaned'.cleanedRows = cleaned'.cleanedRows
              /\ recleaned'.result = cleaned'.result ]_vars

\* Both runs were made on a table of which the first dropped a row and rewrote
\* a cell of a row it kept
C24_Witness ==
    /\ cleanerStep = "saved"
    /\ Len(cleaned.cleanedRows) < Len(inputRows)
    /\ cleaned.result.modifiedCells > 0
    /\ recleaned.result.modifiedCells > 0

(***************************************************************************)
(* Claims about the filter reducer (checked under SpecReducer).            *)
(***************************************************************************)

\* C26: after any sequence of ADD_FILTER, UPDATE_FILTER, REMOVE_FILTER,
\* TOGGLE_FILTER, SET_PRIORITY_COLUMN and CLEAR_ALL_FILTERS, activeFilterCount
\* is the number of filters of the list with isActive true, also when two
\* filters share an id or an action names an id that is not in the list.
C26_ActiveFilterCount == activeFilterCount = ActiveCount(evalFilters)

\* C26, the part that holds: while the ids of the list are distinct the count
\* is the number of active filters after every action, whatever id it names.
C26_CountWithDistinctIds ==
    [][ (/\ activeFilterCount = ActiveCount(evalFilters)
         /\ \A j, k \in 1..Len(evalFilters) : evalFilters[j].id = evalFilters[k].id => j = k)
        => activeFilterCount' = ActiveCount(evalFilters') ]_vars

(***************************************************************************)
(* Claims about persistence (checked under SpecStore, SpecApply and        *)
(* SpecSave).                                                              *)
(***************************************************************************)

\* No call of saveDataset or handleCleanComplete is between two requests
Quiescent ==
    /\ saving.phase \in {"idle", "returned"}
    /\ applying.phase \in {"idle", "done"}

\* C25: once every request of a sequence or interleaving of uploads, row
\* creations, row deletions and applications of cleaned data has completed,
\* the rowCount stored for the dataset is the number of its stored rows.
C25_RowCountIsNumberOfRows ==
    (Quiescent /\ stored.exists) => stored.rowCount = Len(stored.rows)

\* C25, the part that holds: after an upload that returned the dataset, and
\* whatever rows were created and deleted meanwhile and afterwards, rowCount
\* is the number of stored rows as long as no cleaned data was applied.
C25_RowCountAfterUpload ==
    (saving.result = "dataset" /\ applying.phase = "idle") =>
        stored.rowCount = Len(stored.rows)

\* The stored rows are exactly the rows of the table, in order, numbered from 0
HoldsExactly(rows) ==
    /\ stored.exists
    /\ stored.rowCount = Len(rows)
    /\ StoredData(stored) = rows
    /\ { stored.rows[k].rowIndex : k \in 1..Len(stored.rows) } = 0..(Len(rows) - 1)

\* C29: applying cleaned data is all-or-nothing: when handleCleanComplete
\* fails, the dataset holds the rows it held before the call; when it
\* succeeds, the dataset holds exactly the cleaned rows, in order, with
\* rowIndex 0..n-1 and rowCount n.
C29_ApplyAllOrNothing ==
    applying.phase = "done" =>
        IF applying.result = "success" THEN HoldsExactly(applying.cleanedData)
        ELSE HoldsExactly(applying.before)

\* C29, the part that holds: cleaned data that fits one request, applied by
\* the transaction of route.ts, is applied as a whole or not at all.
C29_OneRequestTransaction ==
    (/\ applying.phase = "done"
     /\ applying.route = "transaction"
     /\ Len(applying.cleanedData) <= MAX_ROWS_PER_REQUEST) =>
        IF applying.result = "success" THEN HoldsExactly(applying.cleanedData)
        ELSE HoldsExactly(applying.before)

\* C30: when a chunked saveDataset returns null, the dataset it created is no
\* longer stored; when it returns the dataset, the stored rows are the rows of
\* the table in order, with rowIndex 0..n-1 and rowCount n.
C30_ChunkedUploadCleanup ==
    (saving.phase = "returned" /\ Len(saving.rows) > CHUNK_SIZE) =>
        IF saving.result = "null" THEN ~stored.exists ELSE HoldsExactly(saving.rows)

\* C30, the part that holds: the dataset is deleted when a request is answered
\* with success: false, and a chunked upload that returns the dataset has
\* stored every row.
C30_CleanupAfterErrorAnswer ==
    (saving.phase = "returned" /\ Len(saving.rows) > CHUNK_SIZE) =>
        /\ (saving.result = "null" /\ saving.error = "error") => ~stored.exists
        /\ saving.result = "dataset" => HoldsExactly(saving.rows)

====
